---------------------------- MODULE Spec2Model ----------------------------
(***************************************************************************)
(* Expense tracker: the record store (src/js/data.js over                  *)
(* src/js/supabase-client.js and localStorage), the filter state and the   *)
(* query engine (filtering, sorting, period totals, category sums).        *)
(*                                                                         *)
(* Conventions of the model                                                *)
(*   - A JavaScript Date is its time value in whole hours since            *)
(*     1970-01-01T00:00Z; the host's time zone is a whole number of hours  *)
(*     east of UTC (tz).  Local fields (getFullYear, getMonth) are taken   *)
(*     from instant + tz, as the engine does.                              *)
(*   - A dueDate is what the record holds: null, a string that does not    *)
(*     parse, or a date-only string "YYYY-MM-DD", written as the number    *)
(*     YYYYMMDD.  new Date("YYYY-MM-DD") is midnight UTC of that day.      *)
(*   - Amounts are whole currency units.  Period totals are kept in        *)
(*     twelfths of a unit, so that amount / 12 is exact.                   *)
(*   - Sequences are 1-based: JavaScript index i is position i + 1, and    *)
(*     findIndex's -1 is 0.                                                *)
(***************************************************************************)
EXTENDS Integers, Sequences, FiniteSets, Bags, TLC

(***************************************************************************)
(* Bounds of the model.                                                    *)
(***************************************************************************)
MaxExpenses == 2
MaxPending == 1
MaxClock == 2
MaxStored == 2

---------------------------------------------------------------------------
(***************************************************************************)
(* Calendar arithmetic of the Date built-in (proleptic Gregorian).         *)
(***************************************************************************)

\* Days from 1970-01-01 to the civil date y-m-d (m in 1..12).
DaysFromCivil(y, m, d) ==
  LET yy  == IF m <= 2 THEN y - 1 ELSE y
      era == yy \div 400
      yoe == yy - era * 400
      mp  == IF m > 2 THEN m - 3 ELSE m + 9
      doy == (153 * mp + 2) \div 5 + d - 1
      doe == yoe * 365 + yoe \div 4 - yoe \div 100 + doy
  IN  era * 146097 + doe - 719468

\* The civil date of a day number, as [y, m, d] with m in 1..12.
CivilFromDays(z) ==
  LET zz  == z + 719468
      era == zz \div 146097
      doe == zz - era * 146097
      yoe == (doe - doe \div 1460 + doe \div 36524 - doe \div 146096) \div 365
      doy == doe - (365 * yoe + yoe \div 4 - yoe \div 100)
      mp  == (5 * doy + 2) \div 153
      d   == doy - (153 * mp + 2) \div 5 + 1
      m   == IF mp < 10 THEN mp + 3 ELSE mp - 9
      y   == yoe + era * 400
  IN  [y |-> IF m <= 2 THEN y + 1 ELSE y, m |-> m, d |-> d]

\* new Date(year, monthIndex, day) with the month index reduced to 0..11 but
\* no year carried over.
MakeLocalDateSameYear(year, monthIndex, day, zone) ==
  (DaysFromCivil(year, (monthIndex % 12) + 1, 1) + day - 1) * 24 - zone

\* new Date(year, monthIndex, day): local midnight, with the month index
\* (0-based, any integer) and the day (any integer) carried over as MakeDay does.
MakeLocalDate(year, monthIndex, day, zone) ==
  (DaysFromCivil(year + monthIndex \div 12, (monthIndex % 12) + 1, 1) + day - 1) * 24
    - zone

\* Date.prototype.getFullYear / getMonth (0-based) / getDate of an instant.
LocalFields(t, zone) == CivilFromDays((t + zone) \div 24)
GetFullYear(t, zone) == LocalFields(t, zone).y
GetMonth(t, zone) == LocalFields(t, zone).m - 1
GetDate(t, zone) == LocalFields(t, zone).d

---------------------------------------------------------------------------
(***************************************************************************)
(* State.                                                                  *)
(***************************************************************************)
VARIABLES
  expenses,       \* data.js: the in-memory collection
  activeFilters,  \* data.js: type, recurrence, sortBy, dateFrom, dateTo
  currentUser,    \* supabase-client.js: "none" or the logged-in user
  localExpenses,  \* localStorage key 'expenses'
  monthlyBudget,  \* data.js: the in-memory budget
  monthlyIncome,  \* data.js: the in-memory income
  localScalars,   \* localStorage keys 'monthlyBudget' and 'monthlyIncome'
  pending,        \* backend calls in flight, each with its caller's locals
  clock,          \* Date.now(), in milliseconds since the page was loaded
  today,          \* new Date(): the current instant, in hours since the epoch
  tz,             \* the host's offset from UTC, in hours
  engine,         \* which argument order the host's Array.prototype.sort uses
  remoteExpenses, \* the user's rows of the backend's expenses table, where the
                  \* model follows them (BackendSpec); elsewhere the backend
                  \* is an environment that answers ok or error
  returned,       \* what the last step returned to the caller of a store operation
  alert,          \* the alert() the last step raised, "" when it raised none
  result          \* what the last step returned, when it was a query

vars == << expenses, activeFilters, currentUser, localExpenses, monthlyBudget,
           monthlyIncome, localScalars, pending, clock, today, tz, engine,
           remoteExpenses,
           returned, alert, result >>

\* A record without an id (the spread of an undefined array element).
NoId == 0
\* dueDate: null (createExpenseObject's `data.dueDate || null`).
NullDate == 0
\* dueDate: a non-empty string that Date cannot parse.
BadDate == 1

\* An empty slot of a sparse array (an index assigned past the end).
Hole == [id |-> NoId - 1, name |-> "", category |-> "", recurrence |-> "",
         amount |-> 0, dueDate |-> NullDate]

IsHole(e) == e.id = NoId - 1

\* The initial filter state.
InitialFilters ==
  [type |-> "", recurrence |-> "", sortBy |-> "name-asc",
   dateFrom |-> <<>>, dateTo |-> <<>>]

\* What the add and edit forms hand over once validateExpenseData accepts
\* them: name, category, recurrence non-empty, amount > 0, dueDate set.
FormData ==
  { [name |-> "rent", category |-> "Housing", recurrence |-> "Monthly",
     amount |-> 100, dueDate |-> 20261101],
    [name |-> "gift", category |-> "Food", recurrence |-> "One-time",
     amount |-> 600, dueDate |-> 20261130] }

validateExpenseData(data) ==
  /\ data.name # ""
  /\ data.category # ""
  /\ data.recurrence # ""
  /\ data.amount > 0
  /\ data.dueDate # NullDate

\* createExpenseObject: id is Date.now().
createExpenseObject(data, now) ==
  [id |-> now, name |-> data.name, category |-> data.category,
   recurrence |-> data.recurrence, amount |-> data.amount,
   dueDate |-> data.dueDate]

isLoggedIn == currentUser # "none"

\* saveExpenses: the whole collection replaces the stored one.
saveExpenses(exps) == exps

\* Array.prototype.findIndex(exp => exp.id === id): 0 when no element matches.
\* The callback also visits empty slots, where exp.id throws.
FindIndexThrows(exps, id) ==
  \E i \in 1..Len(exps) :
    /\ IsHole(exps[i])
    /\ \A j \in 1..(i - 1) : exps[j].id # id

FindIndex(exps, id) ==
  IF \E i \in 1..Len(exps) : exps[i].id = id
  THEN CHOOSE i \in 1..Len(exps) :
         /\ exps[i].id = id
         /\ \A j \in 1..(i - 1) : exps[j].id # id
  ELSE 0

\* Array.prototype.filter(exp => exp.id !== id): empty slots are skipped.
RECURSIVE FilterOutId(_, _)
FilterOutId(exps, id) ==
  IF exps = <<>> THEN <<>>
  ELSE LET h == Head(exps)
           rest == FilterOutId(Tail(exps), id)
       IN  IF IsHole(h) \/ h.id = id THEN rest ELSE <<h>> \o rest

\* expenses[index] = { ...expenses[index], ...updatedExpense }: the fields of
\* the form replace those of the element; an undefined element spreads to
\* nothing, and an index past the end leaves empty slots before it.
MergeAt(exps, index, upd) ==
  LET old == IF index <= Len(exps) /\ ~IsHole(exps[index])
             THEN exps[index].id ELSE NoId
      new == [id |-> old, name |-> upd.name, category |-> upd.category,
              recurrence |-> upd.recurrence, amount |-> upd.amount,
              dueDate |-> upd.dueDate]
  IN  [i \in 1..(IF index > Len(exps) THEN index ELSE Len(exps)) |->
         IF i = index THEN new
         ELSE IF i <= Len(exps) THEN exps[i] ELSE Hole]

\* The backend answers { data } or { error } (supabase-client.js wraps every
\* failure, thrown or returned, into { error }).
BackendOutcomes == {"ok", "error"}

NoOp == [op |-> "none", val |-> 0]

---------------------------------------------------------------------------
(***************************************************************************)
(* Filter state (data.js: updateFilters .. setSorting).                    *)
(***************************************************************************)

\* setDateRange(fromDate, toDate), both Date objects.
setDateRange(filters, fromDate, toDate) ==
  [filters EXCEPT !.dateFrom = <<fromDate>>, !.dateTo = <<toDate>>]

PredefinedRanges ==
  {"current-year", "current-month", "last-month", "last-3-months", "year-to-date"}

\* setPredefinedDateRange with a default branch that removes the range.
setPredefinedDateRangeClearing(filters, range, t, zone) ==
  LET y == GetFullYear(t, zone)
      m == GetMonth(t, zone)
  IN  CASE range = "current-year" ->
             setDateRange(filters, MakeLocalDate(y, 0, 1, zone),
                                   MakeLocalDate(y, 11, 31, zone))
        [] range = "current-month" ->
             setDateRange(filters, MakeLocalDate(y, m, 1, zone),
                                   MakeLocalDate(y, m + 1, 0, zone))
        [] range = "last-month" ->
             setDateRange(filters, MakeLocalDate(y, m - 1, 1, zone),
                                   MakeLocalDate(y, m, 0, zone))
        [] range = "last-3-months" ->
             setDateRange(filters, MakeLocalDate(y, m - 3, 1, zone), t)
        [] range = "year-to-date" ->
             setDateRange(filters, MakeLocalDate(y, 0, 1, zone), t)
        [] OTHER -> [filters EXCEPT !.dateFrom = <<>>, !.dateTo = <<>>]

\* setPredefinedDateRange(range), evaluated at instant t in zone.
setPredefinedDateRange(filters, range, t, zone) ==
  LET y == GetFullYear(t, zone)
      m == GetMonth(t, zone)
  IN  CASE range = "current-year" ->
             setDateRange(filters, MakeLocalDate(y, 0, 1, zone),
                                   MakeLocalDate(y, 11, 31, zone))
        [] range = "current-month" ->
             setDateRange(filters, MakeLocalDate(y, m, 1, zone),
                                   MakeLocalDate(y, m + 1, 0, zone))
        [] range = "last-month" ->
             setDateRange(filters, MakeLocalDate(y, m - 1, 1, zone),
                                   MakeLocalDate(y, m, 0, zone))
        [] range = "last-3-months" ->
             setDateRange(filters, MakeLocalDate(y, m - 3, 1, zone), t)
        [] range = "year-to-date" ->
             setDateRange(filters, MakeLocalDate(y, 0, 1, zone), t)
        [] OTHER -> filters

\* updateFilters({type, recurrence}) as events.js updateFilteredUI calls it.
updateFilters(filters, type, recurrence) ==
  [filters EXCEPT !.type = type, !.recurrence = recurrence]

\* removeFilter with a 'date' branch that clears the lower bound only.
removeFilterLowerOnly(filters, filterType) ==
  CASE filterType = "type" -> [filters EXCEPT !.type = ""]
    [] filterType = "recurrence" -> [filters EXCEPT !.recurrence = ""]
    [] filterType = "date" -> [filters EXCEPT !.dateFrom = <<>>]
    [] OTHER -> filters

removeFilter(filters, filterType) ==
  CASE filterType = "type" -> [filters EXCEPT !.type = ""]
    [] filterType = "recurrence" -> [filters EXCEPT !.recurrence = ""]
    [] filterType = "date" -> [filters EXCEPT !.dateFrom = <<>>, !.dateTo = <<>>]
    [] OTHER -> filters

setSorting(filters, sortBy) == [filters EXCEPT !.sortBy = sortBy]

---------------------------------------------------------------------------
(***************************************************************************)
(* Record store (data.js: addExpense, updateExpense, deleteExpense).  A    *)
(* call made while a user is logged in suspends at its await: the part up  *)
(* to the await is one step, which leaves the call in `pending` with the   *)
(* locals it captured; the part after it is another step, taken when the   *)
(* backend answers, in any order.                                          *)
(***************************************************************************)

Call(op, id, exp, index, initialLength) ==
  [op |-> op, id |-> id, exp |-> exp, index |-> index,
   initialLength |-> initialLength]

\* The calls in flight are a bag: the backend answers them in any order.
RECURSIVE CopiesOver(_, _)
CopiesOver(B, S) ==
  IF S = {} THEN 0
  ELSE LET c == CHOOSE x \in S : TRUE
       IN  CopiesIn(c, B) + CopiesOver(B, S \ {c})

InFlight == CopiesOver(pending, BagToSet(pending))

PendingAdds == CopiesOver(pending, {c \in BagToSet(pending) : c.op = "add"})

\* The budget and the income, in memory and stored.
Scalars == << monthlyBudget, monthlyIncome, localScalars >>

NoScalars == [monthlyBudget |-> 0, monthlyIncome |-> 0]

Env == << clock, today, tz, engine, remoteExpenses, activeFilters, result, Scalars >>

\* addExpense(createExpenseObject(form)), no user logged in.
AddExpenseLocal(data) ==
  /\ ~isLoggedIn
  /\ validateExpenseData(data)
  /\ Len(expenses) < MaxExpenses
  /\ expenses' = Append(expenses, createExpenseObject(data, clock))
  /\ localExpenses' = saveExpenses(expenses')
  /\ returned' = "undefined"
  /\ UNCHANGED << currentUser, pending, Env >>
  /\ alert' = ""

\* addExpense, logged in, up to `await supabaseClient.addExpense(...)`.
AddExpenseCall(data) ==
  /\ isLoggedIn
  /\ validateExpenseData(data)
  /\ Len(expenses) + PendingAdds < MaxExpenses
  /\ pending' = pending (+) SetToBag({Call("add", clock, createExpenseObject(data, clock), 0, 0)})
  /\ returned' = "pending"
  /\ UNCHANGED << expenses, localExpenses, currentUser, Env >>
  /\ alert' = ""

\* addExpense after the await: on error nothing is pushed.
AddExpenseReturn(call, outcome) ==
  /\ BagIn(call, pending)
  /\ call.op = "add"
  /\ pending' = pending (-) SetToBag({call})
  /\ expenses' = IF outcome = "error" THEN expenses
                 ELSE Append(expenses, call.exp)
  /\ returned' = "undefined"
  /\ UNCHANGED << localExpenses, currentUser, Env >>
  /\ alert' = IF outcome = "error" THEN "Error saving expense" ELSE ""

\* updateExpense(id, updatedExpense) that stops before any change: findIndex
\* throws on an empty slot, or no record has the id and false is returned.
UpdateExpenseNoMatch(id) ==
  /\ FindIndexThrows(expenses, id) \/ FindIndex(expenses, id) = 0
  /\ returned' = IF FindIndexThrows(expenses, id) THEN "throws" ELSE "false"
  /\ alert' = ""
  /\ UNCHANGED << expenses, localExpenses, currentUser, pending, Env >>

\* updateExpense, no user logged in.
UpdateExpenseLocal(id, upd) ==
  /\ ~isLoggedIn
  /\ ~FindIndexThrows(expenses, id)
  /\ FindIndex(expenses, id) # 0
  /\ expenses' = MergeAt(expenses, FindIndex(expenses, id), upd)
  /\ localExpenses' = saveExpenses(expenses')
  /\ returned' = "true"
  /\ UNCHANGED << currentUser, pending, Env >>
  /\ alert' = ""

\* updateExpense, logged in, up to `await supabaseClient.updateExpense(...)`.
UpdateExpenseCall(id, upd) ==
  /\ isLoggedIn
  /\ ~FindIndexThrows(expenses, id)
  /\ FindIndex(expenses, id) # 0
  /\ pending' = pending (+) SetToBag({Call("update", id, upd, FindIndex(expenses, id), 0)})
  /\ returned' = "pending"
  /\ UNCHANGED << expenses, localExpenses, currentUser, Env >>
  /\ alert' = ""

\* updateExpense applying the change before the backend's answer is looked at.
UpdateExpenseReturnOptimistic(call, outcome) ==
  /\ BagIn(call, pending)
  /\ call.op = "update"
  /\ pending' = pending (-) SetToBag({call})
  /\ expenses' = MergeAt(expenses, call.index, call.exp)
  /\ localExpenses' = IF isLoggedIn THEN localExpenses
                      ELSE saveExpenses(expenses')
  /\ returned' = IF outcome = "error" THEN "false" ELSE "true"
  /\ alert' = IF outcome = "error" THEN "Error updating expense" ELSE ""
  /\ UNCHANGED << currentUser, Env >>

\* updateExpense after the await: the index found before the await is used.
UpdateExpenseReturn(call, outcome) ==
  /\ BagIn(call, pending)
  /\ call.op = "update"
  /\ pending' = pending (-) SetToBag({call})
  /\ IF outcome = "error"
     THEN /\ returned' = "false"
          /\ UNCHANGED << expenses, localExpenses >>
     ELSE /\ expenses' = MergeAt(expenses, call.index, call.exp)
          /\ localExpenses' = IF isLoggedIn THEN localExpenses
                              ELSE saveExpenses(expenses')
          /\ returned' = "true"
  /\ UNCHANGED << currentUser, Env >>
  /\ alert' = IF outcome = "error" THEN "Error updating expense" ELSE ""

\* deleteExpense(id), no user logged in.
DeleteExpenseLocal(id) ==
  /\ ~isLoggedIn
  /\ expenses' = FilterOutId(expenses, id)
  /\ IF Len(expenses') < Len(expenses)
     THEN /\ localExpenses' = saveExpenses(expenses')
          /\ returned' = "true"
     ELSE /\ returned' = "false"
          /\ UNCHANGED localExpenses
  /\ UNCHANGED << currentUser, pending, Env >>
  /\ alert' = ""

\* deleteExpense, logged in, up to `await supabaseClient.deleteExpense(id)`.
DeleteExpenseCall(id) ==
  /\ isLoggedIn
  /\ pending' = pending (+) SetToBag({Call("delete", id, Hole, 0, Len(expenses))})
  /\ returned' = "pending"
  /\ UNCHANGED << expenses, localExpenses, currentUser, Env >>
  /\ alert' = ""

\* deleteExpense filtering the collection whatever the backend answered.
DeleteExpenseReturnIgnoringError(call, outcome) ==
  /\ BagIn(call, pending)
  /\ call.op = "delete"
  /\ pending' = pending (-) SetToBag({call})
  /\ expenses' = FilterOutId(expenses, call.id)
  /\ IF Len(expenses') < call.initialLength
     THEN /\ localExpenses' = IF isLoggedIn THEN localExpenses
                              ELSE saveExpenses(expenses')
          /\ returned' = "true"
     ELSE /\ returned' = "false"
          /\ UNCHANGED localExpenses
  /\ UNCHANGED << currentUser, Env >>
  /\ alert' = IF outcome = "error" THEN "Error deleting expense" ELSE ""

\* deleteExpense after the await.
DeleteExpenseReturn(call, outcome) ==
  /\ BagIn(call, pending)
  /\ call.op = "delete"
  /\ pending' = pending (-) SetToBag({call})
  /\ IF outcome = "error"
     THEN /\ returned' = "false"
          /\ UNCHANGED << expenses, localExpenses >>
     ELSE /\ expenses' = FilterOutId(expenses, call.id)
          /\ IF Len(expenses') < call.initialLength
             THEN /\ localExpenses' = IF isLoggedIn THEN localExpenses
                                      ELSE saveExpenses(expenses')
                  /\ returned' = "true"
             ELSE /\ returned' = "false"
                  /\ UNCHANGED localExpenses
  /\ UNCHANGED << currentUser, Env >>
  /\ alert' = IF outcome = "error" THEN "Error deleting expense" ELSE ""

\* Time passes: Date.now() advances by a millisecond.
Tick ==
  /\ clock < MaxClock
  /\ clock' = clock + 1
  /\ alert' = ""
  /\ returned' = "none"
  /\ UNCHANGED << expenses, localExpenses, currentUser, pending,
                  today, tz, engine, remoteExpenses, activeFilters, result, Scalars >>

\* An instant of the model's present: 2026-11-15T12:00Z.
Noon == DaysFromCivil(2026, 11, 15) * 24 + 12

\* The page as main.js leaves it once loaded, with a stored session or none:
\* no records yet, the date range preset to the current year.
Init ==
  /\ expenses = <<>>
  /\ localExpenses = <<>>
  /\ currentUser \in {"none", "user"}
  /\ pending = EmptyBag
  /\ clock = 1
  /\ today = Noon
  /\ tz = 0
  /\ engine = "binary"
  /\ remoteExpenses = <<>>
  /\ monthlyBudget = 0
  /\ monthlyIncome = 0
  /\ localScalars = NoScalars
  /\ activeFilters =
       setPredefinedDateRange(InitialFilters, "current-year", today, tz)
  /\ returned = "none"
  /\ alert = ""
  /\ result = NoOp

Ids == 1..MaxClock

Next ==
  \/ \E data \in FormData : AddExpenseLocal(data)
  \/ \E data \in FormData : InFlight < MaxPending /\ AddExpenseCall(data)
  \/ \E call \in BagToSet(pending), outcome \in BackendOutcomes :
       AddExpenseReturn(call, outcome)
  \/ \E id \in Ids : UpdateExpenseNoMatch(id)
  \/ \E id \in Ids, upd \in FormData : UpdateExpenseLocal(id, upd)
  \/ \E id \in Ids, upd \in FormData :
       InFlight < MaxPending /\ UpdateExpenseCall(id, upd)
  \/ \E call \in BagToSet(pending), outcome \in BackendOutcomes :
       UpdateExpenseReturn(call, outcome)
  \/ \E id \in Ids : DeleteExpenseLocal(id)
  \/ \E id \in Ids : InFlight < MaxPending /\ DeleteExpenseCall(id)
  \/ \E call \in BagToSet(pending), outcome \in BackendOutcomes :
       DeleteExpenseReturn(call, outcome)
  \/ Tick

Spec == Init /\ [][Next]_vars

---------------------------------------------------------------------------
(***************************************************************************)
(* Query engine (data.js: getFilteredExpenses .. getCategorySums).         *)
(***************************************************************************)

\* `!exp.dueDate`: null is falsy, any non-empty string is truthy.
Falsy(dueDate) == dueDate = NullDate

\* isNaN(new Date(dueDate).getTime()): a string that does not parse gives an
\* Invalid Date; null converts to the number 0, which is a valid Date.
IsInvalidDate(dueDate) == dueDate = BadDate

\* new Date(dueDate).getTime(): null is the epoch, "YYYY-MM-DD" is midnight
\* UTC of that day.
TimeValue(dueDate) ==
  IF dueDate = NullDate THEN 0
  ELSE DaysFromCivil(dueDate \div 10000, (dueDate \div 100) % 100,
                     dueDate % 100) * 24

\* The locale's collation of the strings the model uses.
Collation == << "Food", "gift", "Housing", "rent" >>

\* a.localeCompare(b): negative, zero or positive.
LocaleCompare(a, b) ==
  (CHOOSE i \in 1..Len(Collation) : Collation[i] = a)
    - (CHOOSE i \in 1..Len(Collation) : Collation[i] = b)

\* The order of the recurrence strings themselves.
RecurrenceLexicographic(r) ==
  CASE r = "Monthly" -> 0 [] r = "One-time" -> 1 [] r = "Yearly" -> 2

RecurrenceOrder(r) ==
  CASE r = "Monthly" -> 0 [] r = "Yearly" -> 1 [] r = "One-time" -> 2

ReverseRecurrenceOrder(r) ==
  CASE r = "One-time" -> 0 [] r = "Yearly" -> 1 [] r = "Monthly" -> 2

\* The comparator of sortExpenses.  A NaN result (a date that does not
\* parse) is 0 here: Array.prototype.sort reads NaN as +0.
Compare(a, b, sortBy) ==
  CASE sortBy = "name-asc" -> LocaleCompare(a.name, b.name)
    [] sortBy = "name-desc" -> LocaleCompare(b.name, a.name)
    [] sortBy = "category-asc" -> LocaleCompare(a.category, b.category)
    [] sortBy = "category-desc" -> LocaleCompare(b.category, a.category)
    [] sortBy = "recurrence-asc" ->
         RecurrenceOrder(a.recurrence) - RecurrenceOrder(b.recurrence)
    [] sortBy = "recurrence-desc" ->
         ReverseRecurrenceOrder(a.recurrence)
           - ReverseRecurrenceOrder(b.recurrence)
    [] sortBy = "amount-asc" -> a.amount - b.amount
    [] sortBy = "amount-desc" -> b.amount - a.amount
    [] sortBy = "date-asc" ->
         IF Falsy(a.dueDate) THEN 1
         ELSE IF Falsy(b.dueDate) THEN 0 - 1
         ELSE IF IsInvalidDate(a.dueDate) \/ IsInvalidDate(b.dueDate) THEN 0
         ELSE TimeValue(a.dueDate) - TimeValue(b.dueDate)
    [] sortBy = "date-desc" ->
         IF Falsy(a.dueDate) THEN 1
         ELSE IF Falsy(b.dueDate) THEN 0 - 1
         ELSE IF IsInvalidDate(a.dueDate) \/ IsInvalidDate(b.dueDate) THEN 0
         ELSE TimeValue(b.dueDate) - TimeValue(a.dueDate)
    [] OTHER -> 0

SortKeys ==
  {"name-asc", "name-desc", "category-asc", "category-desc", "recurrence-asc",
   "recurrence-desc", "amount-asc", "amount-desc", "date-asc", "date-desc"}

(***************************************************************************)
(* Array.prototype.sort.  With a consistent comparator every engine gives  *)
(* the one stable order.  The date comparators are not consistent (two     *)
(* records without dueDate each compare greater than the other), and then  *)
(* the order is the engine's: the model has the two algorithms engines use *)
(* on short arrays, which differ in the order they pass the arguments.     *)
(*   "binary": the run is found, a strictly descending run is reversed,    *)
(*             and each later element is placed by binary search with      *)
(*             comparefn(later, earlier) < 0 moving it left;               *)
(*   "linear": insertion sort, comparefn(earlier, later) > 0 moving the    *)
(*             later element left.                                         *)
(***************************************************************************)
Engines == {"binary", "linear"}

Reverse(s) == [i \in 1..Len(s) |-> s[Len(s) + 1 - i]]

InsertAt(s, pos, x) == SubSeq(s, 1, pos - 1) \o <<x>> \o SubSeq(s, pos, Len(s))

\* Last position of the run that starts at 1 and has reached idx.
RECURSIVE RunEnd(_, _, _, _)
RunEnd(s, sortBy, idx, descending) ==
  IF idx = Len(s) THEN idx
  ELSE LET order == Compare(s[idx + 1], s[idx], sortBy)
       IN  IF descending
           THEN IF order >= 0 THEN idx
                ELSE RunEnd(s, sortBy, idx + 1, descending)
           ELSE IF order < 0 THEN idx
                ELSE RunEnd(s, sortBy, idx + 1, descending)

\* Where binary search over sorted[left .. right - 1] places the pivot.
RECURSIVE BinarySearch(_, _, _, _, _)
BinarySearch(sorted, pivot, sortBy, left, right) ==
  IF left >= right THEN left
  ELSE LET mid == left + (right - left) \div 2
       IN  IF Compare(pivot, sorted[mid], sortBy) < 0
           THEN BinarySearch(sorted, pivot, sortBy, left, mid)
           ELSE BinarySearch(sorted, pivot, sortBy, mid + 1, right)

RECURSIVE BinaryInsertionSort(_, _, _)
BinaryInsertionSort(sorted, rest, sortBy) ==
  IF rest = <<>> THEN sorted
  ELSE BinaryInsertionSort(
         InsertAt(sorted,
                  BinarySearch(sorted, Head(rest), sortBy, 1, Len(sorted) + 1),
                  Head(rest)),
         Tail(rest), sortBy)

BinarySort(s, sortBy) ==
  IF Len(s) < 2 THEN s
  ELSE LET descending == Compare(s[2], s[1], sortBy) < 0
           run == RunEnd(s, sortBy, 2, descending)
           first == IF descending THEN Reverse(SubSeq(s, 1, run))
                    ELSE SubSeq(s, 1, run)
       IN  BinaryInsertionSort(first, SubSeq(s, run + 1, Len(s)), sortBy)

\* Where insertion from the right places item in sorted[1 .. j].
RECURSIVE LinearSearch(_, _, _, _)
LinearSearch(sorted, item, sortBy, j) ==
  IF j = 0 THEN 1
  ELSE IF Compare(sorted[j], item, sortBy) <= 0 THEN j + 1
  ELSE LinearSearch(sorted, item, sortBy, j - 1)

RECURSIVE LinearInsertionSort(_, _, _)
LinearInsertionSort(sorted, rest, sortBy) ==
  IF rest = <<>> THEN sorted
  ELSE LinearInsertionSort(
         InsertAt(sorted,
                  LinearSearch(sorted, Head(rest), sortBy, Len(sorted)),
                  Head(rest)),
         Tail(rest), sortBy)

\* sortExpenses(exps, sortBy): a sorted copy, on the host's engine.
sortExpenses(exps, sortBy, eng) ==
  IF eng = "binary" THEN BinarySort(exps, sortBy)
  ELSE LinearInsertionSort(<<>>, exps, sortBy)

\* The date clause of the filter callback for a One-time record whose date
\* is valid: both tests return true, and a record that fails both leaves the
\* `if` and reaches the callback's last line, `return true`.
OneTimeDateClause(expDate, filters, t, zone) ==
  LET dateFrom == filters.dateFrom[1]
      dateTo == filters.dateTo[1]
      inCurrentYear == GetFullYear(expDate, zone) = GetFullYear(t, zone)
      filterIncludesCurrentYear ==
        /\ GetFullYear(dateFrom, zone) <= GetFullYear(t, zone)
        /\ GetFullYear(dateTo, zone) >= GetFullYear(t, zone)
  IN  IF expDate >= dateFrom /\ expDate <= dateTo THEN TRUE
      ELSE IF inCurrentYear /\ filterIncludesCurrentYear THEN TRUE
      ELSE TRUE

\* The date clause for the other recurrences.
RecurringDateClause(expDate, filters) ==
  ~(expDate < filters.dateFrom[1] \/ expDate > filters.dateTo[1])

\* A callback without the recurrence test.
PassesFiltersAnyRecurrence(exp, filters, t, zone) ==
  IF filters.type # "" /\ exp.category # filters.type THEN FALSE
  ELSE IF filters.dateFrom # <<>> /\ filters.dateTo # <<>>
  THEN IF IsInvalidDate(exp.dueDate) THEN FALSE
       ELSE IF exp.recurrence = "One-time"
       THEN OneTimeDateClause(TimeValue(exp.dueDate), filters, t, zone)
       ELSE RecurringDateClause(TimeValue(exp.dueDate), filters)
  ELSE TRUE

\* The callback of expenses.filter in getFilteredExpenses.
PassesFilters(exp, filters, t, zone) ==
  IF filters.type # "" /\ exp.category # filters.type THEN FALSE
  ELSE IF filters.recurrence # "" /\ exp.recurrence # filters.recurrence
  THEN FALSE
  ELSE IF filters.dateFrom # <<>> /\ filters.dateTo # <<>>
  THEN IF IsInvalidDate(exp.dueDate) THEN FALSE
       ELSE IF exp.recurrence = "One-time"
       THEN OneTimeDateClause(TimeValue(exp.dueDate), filters, t, zone)
       ELSE RecurringDateClause(TimeValue(exp.dueDate), filters)
  ELSE TRUE

\* Array.prototype.filter: the elements that pass, in order; empty slots
\* are skipped.
RECURSIVE FilterExpenses(_, _, _, _)
FilterExpenses(exps, filters, t, zone) ==
  IF exps = <<>> THEN <<>>
  ELSE LET rest == FilterExpenses(Tail(exps), filters, t, zone)
       IN  IF ~IsHole(Head(exps)) /\ PassesFilters(Head(exps), filters, t, zone)
           THEN <<Head(exps)>> \o rest
           ELSE rest

getFilteredExpenses(exps, filters, t, zone, eng) ==
  sortExpenses(FilterExpenses(exps, filters, t, zone), filters.sortBy, eng)

---------------------------------------------------------------------------
(***************************************************************************)
(* Steps of the filter controls and of the queries the page makes.  A      *)
(* query changes nothing; what it returns is in `result` for that step.    *)
(***************************************************************************)

Store == << expenses, localExpenses, currentUser, pending, clock, Scalars >>
Host == << today, tz, engine, remoteExpenses >>

Quiet == returned' = "none" /\ alert' = ""

\* events.js updateFilteredUI: the two select boxes are copied to the filters.
UpdateFilters(type, recurrence) ==
  /\ activeFilters' = updateFilters(activeFilters, type, recurrence)
  /\ result' = NoOp
  /\ Quiet
  /\ UNCHANGED << Store, Host >>

\* events.js, the apply-date-range button: both inputs filled in.
ApplyDateRange(fromDate, toDate) ==
  /\ fromDate # NullDate /\ toDate # NullDate
  /\ activeFilters' =
       setDateRange(activeFilters, TimeValue(fromDate), TimeValue(toDate))
  /\ result' = NoOp
  /\ Quiet
  /\ UNCHANGED << Store, Host >>

\* ui.js toggleCustomDateRange: any value of the select but 'custom'.
SetPredefinedDateRange(range) ==
  /\ activeFilters' = setPredefinedDateRange(activeFilters, range, today, tz)
  /\ result' = NoOp
  /\ Quiet
  /\ UNCHANGED << Store, Host >>

\* The remove button of a filter badge.
RemoveFilter(filterType) ==
  /\ activeFilters' = removeFilter(activeFilters, filterType)
  /\ result' = NoOp
  /\ Quiet
  /\ UNCHANGED << Store, Host >>

\* ui.js applySorting.
SetSorting(sortBy) ==
  /\ activeFilters' = setSorting(activeFilters, sortBy)
  /\ result' = NoOp
  /\ Quiet
  /\ UNCHANGED << Store, Host >>

Returns(op, arg, val) == result' = [op |-> op, arg |-> arg, val |-> val]

GetFilteredExpenses ==
  /\ Returns("getFilteredExpenses", "",
             getFilteredExpenses(expenses, activeFilters, today, tz, engine))
  /\ Quiet
  /\ UNCHANGED << Store, Host, activeFilters >>

\* The hosts of the model: New York (winter), UTC, Central Europe (summer).
Zones == {0 - 5, 0, 2}

\* A stored collection: records as JSON.parse gives them back, here with
\* the position as id.
WithId(data, id) ==
  [id |-> id, name |-> data.name, category |-> data.category,
   recurrence |-> data.recurrence, amount |-> data.amount,
   dueDate |-> data.dueDate]

StoredCollections(pool, maxLen) ==
  UNION { { [i \in 1..n |-> WithId(f[i], i)] : f \in [1..n -> pool] } :
          n \in 0..maxLen }

Data(name, category, recurrence, amount, dueDate) ==
  [name |-> name, category |-> category, recurrence |-> recurrence,
   amount |-> amount, dueDate |-> dueDate]

\* The page loaded with no session (initializeData reads localStorage, where
\* an import may have put records with any dueDate), as main.js leaves it.
LoadedInit(collections, zones, engines) ==
  /\ expenses \in collections
  /\ localExpenses = expenses
  /\ monthlyBudget = 0
  /\ monthlyIncome = 0
  /\ localScalars = NoScalars
  /\ currentUser = "none"
  /\ pending = EmptyBag
  /\ clock = 1
  /\ today = Noon
  /\ tz \in zones
  /\ engine \in engines
  /\ remoteExpenses = <<>>
  /\ activeFilters =
       setPredefinedDateRange(InitialFilters, "current-year", today, tz)
  /\ returned = "none"
  /\ alert = ""
  /\ result = NoOp

(***************************************************************************)
(* FilterSpec: the filter predicate over stored collections that differ in *)
(* category, recurrence and dueDate.  The sort key stays name-asc and the  *)
(* names are equal, so the comparator is consistent and the engines agree. *)
(***************************************************************************)
FilterPool ==
  { Data("rent", "Food", "Monthly", 100, 20261101),
    Data("rent", "Housing", "Yearly", 100, 20260315),
    Data("rent", "Food", "Yearly", 100, BadDate),
    Data("rent", "Housing", "Monthly", 100, NullDate),
    Data("rent", "Food", "One-time", 100, 20260315),
    Data("rent", "Housing", "One-time", 100, 20250615),
    Data("rent", "Food", "One-time", 100, NullDate) }

\* What the date inputs of the custom range hold when Apply is pressed.
CustomRanges == { <<19691231, 20261231>>, <<20260301, 20260331>> }

TypeChoices == {"", "Food"}
RecurrenceChoices == {"", "Monthly", "One-time"}

FilterInit ==
  LoadedInit(StoredCollections(FilterPool, MaxStored), Zones, {"binary"})

FilterNext ==
  \/ \E type \in TypeChoices, recurrence \in RecurrenceChoices :
       UpdateFilters(type, recurrence)
  \/ \E range \in CustomRanges : ApplyDateRange(range[1], range[2])
  \/ \E range \in PredefinedRanges \cup {"all"} : SetPredefinedDateRange(range)
  \/ \E filterType \in {"type", "recurrence", "date"} : RemoveFilter(filterType)
  \/ GetFilteredExpenses

FilterSpec == FilterInit /\ [][FilterNext]_vars

---------------------------------------------------------------------------
(***************************************************************************)
(* Record store: properties.                                               *)
(***************************************************************************)

\* C1: a step of addExpense, updateExpense or deleteExpense that ends with
\* the backend's error (the step that raises the error alert) leaves the
\* in-memory collection as it was: nothing added, changed or removed.
C1_ErrorLeavesCollection == [][alert' # "" => expenses' = expenses]_vars

\* A failed update of a record that is in the collection, while logged in.
C1_Witness ==
  /\ isLoggedIn
  /\ alert = "Error updating expense"
  /\ expenses # <<>>

---------------------------------------------------------------------------
(***************************************************************************)
(* Filter predicate: properties, checked under FilterSpec.                 *)
(***************************************************************************)

\* A dueDate that is a calendar date (neither null nor unparseable).
HasCalendarDate(e) == e.dueDate # NullDate /\ e.dueDate # BadDate

\* The calendar day (YYYYMMDD) on which an instant falls on this host.
LocalDay(t) ==
  LocalFields(t, tz).y * 10000 + LocalFields(t, tz).m * 100
    + LocalFields(t, tz).d

DueYear(e) == e.dueDate \div 10000
DueMonth(e) == (e.dueDate \div 100) % 100

Filtered == result.op = "getFilteredExpenses"

BothBoundsSet == activeFilters.dateFrom # <<>> /\ activeFilters.dateTo # <<>>

InResult(e) == \E j \in 1..Len(result.val) : result.val[j] = e

\* The category and recurrence clauses of the specification.
PassesCategoryAndRecurrence(e) ==
  /\ activeFilters.type = "" \/ e.category = activeFilters.type
  /\ activeFilters.recurrence = "" \/ e.recurrence = activeFilters.recurrence

\* dueDate within [dateFrom, dateTo], as calendar days, both ends included.
DueWithinRange(e) ==
  /\ LocalDay(activeFilters.dateFrom[1]) <= e.dueDate
  /\ e.dueDate <= LocalDay(activeFilters.dateTo[1])

\* The fallback: due in the current year, and the range spans that year.
CurrentYearFallback(e) ==
  /\ DueYear(e) = GetFullYear(today, tz)
  /\ GetFullYear(activeFilters.dateFrom[1], tz) <= GetFullYear(today, tz)
  /\ GetFullYear(today, tz) <= GetFullYear(activeFilters.dateTo[1], tz)

\* C2: with both date bounds set, a One-time record with a valid dueDate is
\* returned if and only if it passes the category and recurrence clauses and
\* its dueDate is within the range or the current-year fallback applies; a
\* One-time record meeting neither date condition is not returned.
C2_OneTimeDateClause ==
  (Filtered /\ BothBoundsSet) =>
    \A i \in 1..Len(expenses) :
      (expenses[i].recurrence = "One-time" /\ HasCalendarDate(expenses[i])) =>
        (InResult(expenses[i]) <=>
           /\ PassesCategoryAndRecurrence(expenses[i])
           /\ DueWithinRange(expenses[i]) \/ CurrentYearFallback(expenses[i]))

\* C3: with both date bounds set, a Monthly or Yearly record with a valid
\* dueDate passes the date clause if and only if its dueDate is within
\* [dateFrom, dateTo]; the current-year fallback never admits it.
C3_RecurringDateClause ==
  (Filtered /\ BothBoundsSet) =>
    \A i \in 1..Len(expenses) :
      (expenses[i].recurrence # "One-time" /\ HasCalendarDate(expenses[i])) =>
        (InResult(expenses[i]) <=>
           /\ PassesCategoryAndRecurrence(expenses[i])
           /\ DueWithinRange(expenses[i]))

\* C4: with both date bounds set, no record whose dueDate is null or does
\* not parse is returned, whatever its recurrence and the range.
C4_NoDateExcluded ==
  (Filtered /\ BothBoundsSet) =>
    \A i \in 1..Len(expenses) :
      ~HasCalendarDate(expenses[i]) => ~InResult(expenses[i])

\* C5: with no date range set, the result holds exactly the records that
\* pass the category and recurrence clauses, each once.
C5_CategoryAndRecurrenceOnly ==
  (Filtered /\ ~BothBoundsSet) =>
    LET matching == { i \in 1..Len(expenses) :
                        PassesCategoryAndRecurrence(expenses[i]) }
    IN  /\ Len(result.val) = Cardinality(matching)
        /\ \A i \in matching : InResult(expenses[i])
        /\ \A j \in 1..Len(result.val) :
             \E i \in matching : result.val[j] = expenses[i]

\* Both filters set, no date range: one record returned, one held back.
C5_Witness ==
  /\ Filtered /\ ~BothBoundsSet
  /\ activeFilters.type # "" /\ activeFilters.recurrence # ""
  /\ Len(result.val) = 1
  /\ Len(expenses) = 2

---------------------------------------------------------------------------
(***************************************************************************)
(* Aggregates.  Amounts are whole numbers and every total is kept in       *)
(* twelfths of the currency unit, so that amount / 12 is exact: a total of *)
(* 800 is the value 9600.                                                  *)
(***************************************************************************)

MonthsPerYear == 12

\* amount, and amount / 12, in twelfths.
Whole(amount) == amount * MonthsPerYear
Twelfth(amount) == amount

\* new Date(exp.dueDate) has the month and the year of today, on this host.
DueThisMonth(exp, t, zone) ==
  /\ ~IsInvalidDate(exp.dueDate)
  /\ GetMonth(TimeValue(exp.dueDate), zone) = GetMonth(t, zone)
  /\ GetFullYear(TimeValue(exp.dueDate), zone) = GetFullYear(t, zone)

DueThisYear(exp, t, zone) ==
  /\ ~IsInvalidDate(exp.dueDate)
  /\ GetFullYear(TimeValue(exp.dueDate), zone) = GetFullYear(t, zone)

\* What one record adds in the forEach of calculateMonthlyTotal.
MonthlyAmount(exp, recurrenceFilter, t, zone) ==
  IF exp.recurrence = "Monthly" THEN Whole(exp.amount)
  ELSE IF exp.recurrence = "Yearly" THEN Twelfth(exp.amount)
  ELSE IF exp.recurrence = "One-time"
  THEN IF recurrenceFilter = "One-time" THEN Whole(exp.amount)
       ELSE IF ~Falsy(exp.dueDate) /\ DueThisMonth(exp, t, zone)
       THEN Whole(exp.amount)
       ELSE 0
  ELSE 0

\* What one record adds in the forEach of calculateYearlyTotal.
YearlyAmount(exp, recurrenceFilter, t, zone) ==
  IF exp.recurrence = "Monthly" THEN Whole(exp.amount * 12)
  ELSE IF exp.recurrence = "Yearly" THEN Whole(exp.amount)
  ELSE IF exp.recurrence = "One-time"
  THEN IF recurrenceFilter = "One-time" THEN Whole(exp.amount)
       ELSE IF ~Falsy(exp.dueDate) /\ DueThisYear(exp, t, zone)
       THEN Whole(exp.amount)
       ELSE 0
  ELSE 0

RECURSIVE MonthlyFold(_, _, _, _, _)
MonthlyFold(exps, total, recurrenceFilter, t, zone) ==
  IF exps = <<>> THEN total
  ELSE MonthlyFold(Tail(exps),
                   total + MonthlyAmount(Head(exps), recurrenceFilter, t, zone),
                   recurrenceFilter, t, zone)

RECURSIVE YearlyFold(_, _, _, _, _)
YearlyFold(exps, total, recurrenceFilter, t, zone) ==
  IF exps = <<>> THEN total
  ELSE YearlyFold(Tail(exps),
                  total + YearlyAmount(Head(exps), recurrenceFilter, t, zone),
                  recurrenceFilter, t, zone)

calculateMonthlyTotal(exps, filters, t, zone, eng) ==
  MonthlyFold(getFilteredExpenses(exps, filters, t, zone, eng), 0,
              filters.recurrence, t, zone)

calculateYearlyTotal(exps, filters, t, zone, eng) ==
  YearlyFold(getFilteredExpenses(exps, filters, t, zone, eng), 0,
             filters.recurrence, t, zone)

Periods == {"monthly", "yearly"}

\* One-time counted in full in the monthly view.
CategoryAmountInFull(exp, period) ==
  IF exp.recurrence = "Monthly"
  THEN IF period = "monthly" THEN Whole(exp.amount) ELSE Whole(exp.amount * 12)
  ELSE IF exp.recurrence = "Yearly"
  THEN IF period = "monthly" THEN Twelfth(exp.amount) ELSE Whole(exp.amount)
  ELSE IF exp.recurrence = "One-time"
  THEN Whole(exp.amount)
  ELSE 0

\* `amount` in the forEach of getCategorySums.
CategoryAmount(exp, period) ==
  IF exp.recurrence = "Monthly"
  THEN IF period = "monthly" THEN Whole(exp.amount) ELSE Whole(exp.amount * 12)
  ELSE IF exp.recurrence = "Yearly"
  THEN IF period = "monthly" THEN Twelfth(exp.amount) ELSE Whole(exp.amount)
  ELSE IF exp.recurrence = "One-time"
  THEN IF period = "monthly" THEN Twelfth(exp.amount) ELSE Whole(exp.amount)
  ELSE 0

NoSums == [categorySums |-> [c \in {} |-> 0], totalSum |-> 0]

RECURSIVE CategoryFold(_, _, _)
CategoryFold(exps, period, acc) ==
  IF exps = <<>> THEN acc
  ELSE LET category == Head(exps).category
           amount == CategoryAmount(Head(exps), period)
           started == IF category \in DOMAIN acc.categorySums
                      THEN acc.categorySums
                      ELSE acc.categorySums @@ (category :> 0)
       IN  CategoryFold(Tail(exps), period,
             [categorySums |-> [started EXCEPT ![category] = @ + amount],
              totalSum |-> acc.totalSum + amount])

getCategorySums(period, exps, filters, t, zone, eng) ==
  CategoryFold(getFilteredExpenses(exps, filters, t, zone, eng), period, NoSums)

CalculateMonthlyTotal ==
  /\ Returns("calculateMonthlyTotal", "",
             calculateMonthlyTotal(expenses, activeFilters, today, tz, engine))
  /\ Quiet
  /\ UNCHANGED << Store, Host, activeFilters >>

CalculateYearlyTotal ==
  /\ Returns("calculateYearlyTotal", "",
             calculateYearlyTotal(expenses, activeFilters, today, tz, engine))
  /\ Quiet
  /\ UNCHANGED << Store, Host, activeFilters >>

GetCategorySums(period) ==
  /\ Returns("getCategorySums", period,
             getCategorySums(period, expenses, activeFilters, today, tz,
                             engine))
  /\ Quiet
  /\ UNCHANGED << Store, Host, activeFilters >>

(***************************************************************************)
(* TotalsSpec: the aggregates over stored collections that hold the three  *)
(* recurrences, One-time records due on the first day of this month, on    *)
(* the first day of this year, in this month of last year, and without a   *)
(* usable dueDate.                                                         *)
(***************************************************************************)
TotalsPool ==
  << Data("rent", "Food", "Monthly", 100, 20261101),
     Data("rent", "Food", "Yearly", 1200, 20260315),
     Data("rent", "Housing", "One-time", 600, 20261101),
     Data("rent", "Housing", "One-time", 600, 20260101),
     Data("rent", "Food", "One-time", 600, 20251120),
     Data("rent", "Food", "One-time", 600, NullDate),
     Data("rent", "Housing", "One-time", 600, BadDate) >>

\* The records of list at the positions in chosen, in the order of list.
Selection(list, chosen) ==
  LET taken[i \in 0..Len(list)] ==
        IF i = 0 THEN <<>>
        ELSE IF i \in chosen THEN Append(taken[i - 1], list[i])
        ELSE taken[i - 1]
  IN  taken[Len(list)]

\* Every stored collection made of records of list, each at most once.
Selections(list) ==
  { [i \in 1..Len(Selection(list, chosen)) |->
       WithId(Selection(list, chosen)[i], i)] :
    chosen \in SUBSET (1..Len(list)) }

TotalsInit == LoadedInit(Selections(TotalsPool), Zones, {"binary"})

TotalsNext ==
  \/ \E type \in {"", "Food"}, recurrence \in {"", "One-time"} :
       UpdateFilters(type, recurrence)
  \/ \E range \in {"current-year", "current-month"} :
       SetPredefinedDateRange(range)
  \/ RemoveFilter("date")
  \/ CalculateMonthlyTotal
  \/ CalculateYearlyTotal
  \/ \E period \in Periods : GetCategorySums(period)

TotalsSpec == TotalsInit /\ [][TotalsNext]_vars

---------------------------------------------------------------------------
(***************************************************************************)
(* Aggregates: properties, checked under TotalsSpec.                       *)
(***************************************************************************)

\* The filtered records of the present state.
FilteredNow ==
  getFilteredExpenses(expenses, activeFilters, today, tz, engine)

\* The record's dueDate is a day of the current month and year.
DueInCurrentMonth(e) ==
  /\ HasCalendarDate(e)
  /\ DueMonth(e) = GetMonth(today, tz) + 1
  /\ DueYear(e) = GetFullYear(today, tz)

DueInCurrentYear(e) ==
  HasCalendarDate(e) /\ DueYear(e) = GetFullYear(today, tz)

\* What the specification gives a record in each aggregate, in twelfths.
ClaimedShare(e, view) ==
  CASE e.recurrence = "Monthly" ->
         IF view \in {"monthlyTotal", "monthly"} THEN 12 * e.amount
         ELSE 12 * (e.amount * 12)
    [] e.recurrence = "Yearly" ->
         IF view \in {"monthlyTotal", "monthly"} THEN e.amount
         ELSE 12 * e.amount
    [] e.recurrence = "One-time" ->
         CASE view = "monthly" -> e.amount
           [] view = "yearly" -> 12 * e.amount
           [] view = "monthlyTotal" ->
                IF activeFilters.recurrence = "One-time" THEN 12 * e.amount
                ELSE IF DueInCurrentMonth(e) THEN 12 * e.amount ELSE 0
           [] view = "yearlyTotal" ->
                IF activeFilters.recurrence = "One-time" THEN 12 * e.amount
                ELSE IF DueInCurrentYear(e) THEN 12 * e.amount ELSE 0
    [] OTHER -> 0

RECURSIVE SumClaimed(_, _)
SumClaimed(seq, view) ==
  IF seq = <<>> THEN 0
  ELSE ClaimedShare(Head(seq), view) + SumClaimed(Tail(seq), view)

RECURSIVE SumClaimedIn(_, _, _)
SumClaimedIn(seq, view, category) ==
  IF seq = <<>> THEN 0
  ELSE (IF Head(seq).category = category
        THEN ClaimedShare(Head(seq), view) ELSE 0)
       + SumClaimedIn(Tail(seq), view, category)

RECURSIVE SumOfSums(_)
SumOfSums(sums) ==
  IF DOMAIN sums = {} THEN 0
  ELSE LET c == CHOOSE x \in DOMAIN sums : TRUE
       IN  sums[c] + SumOfSums([x \in DOMAIN sums \ {c} |-> sums[x]])

\* The collection of the specification's example: A (Monthly 100),
\* B (Yearly 1200), C (One-time 600 due this month), and no filters.
IsExample ==
  /\ Len(expenses) = 3
  /\ expenses[1].recurrence = "Monthly" /\ expenses[1].amount = 100
  /\ expenses[2].recurrence = "Yearly" /\ expenses[2].amount = 1200
  /\ expenses[3].recurrence = "One-time" /\ expenses[3].amount = 600
  /\ DueInCurrentMonth(expenses[3])
  /\ activeFilters.type = "" /\ activeFilters.recurrence = ""
  /\ ~BothBoundsSet

\* C6: calculateMonthlyTotal is the sum over the filtered records of amount
\* (Monthly), amount / 12 (Yearly) and, for One-time, amount when the
\* recurrence filter is 'One-time' or the dueDate is in the current month and
\* year, else 0; for the example collection it is 800.
C6_MonthlyTotal ==
  result.op = "calculateMonthlyTotal" =>
    /\ result.val = SumClaimed(FilteredNow, "monthlyTotal")
    /\ IsExample => result.val = 12 * 800

\* C7: calculateYearlyTotal is the sum over the filtered records of
\* amount * 12 (Monthly), amount (Yearly) and, for One-time, amount when the
\* recurrence filter is 'One-time' or the dueDate's year is the current year,
\* else 0; for the example collection it is 3000.
C7_YearlyTotal ==
  result.op = "calculateYearlyTotal" =>
    /\ result.val = SumClaimed(FilteredNow, "yearlyTotal")
    /\ IsExample => result.val = 12 * 3000

\* C8: getCategorySums(period) has one sum per category of the filtered set,
\* each the sum of its records' shares (One-time: amount / 12 in the monthly
\* view and amount in the yearly view, whatever the recurrence filter and
\* the dueDate), and totalSum is the sum of the category sums.
C8_CategorySums ==
  result.op = "getCategorySums" =>
    LET sums == result.val.categorySums
    IN  /\ DOMAIN sums =
             { FilteredNow[i].category : i \in 1..Len(FilteredNow) }
        /\ \A c \in DOMAIN sums :
             sums[c] = SumClaimedIn(FilteredNow, result.arg, c)
        /\ result.val.totalSum = SumOfSums(sums)

\* The monthly view under the recurrence filter 'One-time': a single
\* One-time record of 600 gives its category 600 / 12 = 50.
C8_Witness ==
  /\ result.op = "getCategorySums" /\ result.arg = "monthly"
  /\ activeFilters.recurrence = "One-time"
  /\ Len(FilteredNow) = 1
  /\ FilteredNow[1].recurrence = "One-time" /\ FilteredNow[1].amount = 600
  /\ result.val.categorySums[FilteredNow[1].category] = 50 * 12
  /\ result.val.totalSum = 50 * 12

---------------------------------------------------------------------------
(***************************************************************************)
(* SortSpec: sortExpenses over stored collections whose records repeat     *)
(* (equal in every sort key, told apart by id) and differ in every key,    *)
(* with and without a usable dueDate, on both engines.                     *)
(***************************************************************************)
MaxSorted == 3

SortPool ==
  { Data("rent", "Housing", "Monthly", 100, 20261101),
    Data("gift", "Food", "One-time", 600, NullDate),
    Data("rent", "Food", "Yearly", 100, 20260315),
    Data("gift", "Housing", "Monthly", 600, BadDate) }

\* sortExpenses sorting the array it is given, not a copy of it.
SortExpensesInPlace(sortBy) ==
  /\ Returns("sortExpenses", sortBy, sortExpenses(expenses, sortBy, engine))
  /\ expenses' = sortExpenses(expenses, sortBy, engine)
  /\ Quiet
  /\ UNCHANGED << localExpenses, currentUser, pending, clock, Scalars, Host,
                  activeFilters >>

\* sortExpenses(expenses, sortBy), the exported function on the collection.
SortExpenses(sortBy) ==
  /\ Returns("sortExpenses", sortBy, sortExpenses(expenses, sortBy, engine))
  /\ Quiet
  /\ UNCHANGED << Store, Host, activeFilters >>

\* The order does not depend on the zone: one host zone, both engines.
SortInit == LoadedInit(StoredCollections(SortPool, MaxSorted), {0}, Engines)

SortNext ==
  \/ \E sortBy \in SortKeys : SetSorting(sortBy)
  \/ \E sortBy \in SortKeys : SortExpenses(sortBy)
  \/ RemoveFilter("date")
  \/ GetFilteredExpenses

SortSpec == SortInit /\ [][SortNext]_vars

(***************************************************************************)
(* Sorting: properties, checked under SortSpec.                            *)
(***************************************************************************)

\* The value of the field a sort key orders by.
KeyOf(e, sortBy) ==
  CASE sortBy \in {"name-asc", "name-desc"} -> e.name
    [] sortBy \in {"category-asc", "category-desc"} -> e.category
    [] sortBy \in {"recurrence-asc", "recurrence-desc"} -> e.recurrence
    [] sortBy \in {"amount-asc", "amount-desc"} -> e.amount
    [] OTHER -> e.dueDate

\* Where a record of the collection stands in the returned sequence.
Pos(e) == CHOOSE k \in 1..Len(result.val) : result.val[k] = e

Sorted == result.op = "sortExpenses"

IsPermutation ==
  /\ Len(result.val) = Len(expenses)
  /\ \A i \in 1..Len(expenses) : InResult(expenses[i])

\* C9: sortExpenses is stable for every sort key, date-asc and date-desc
\* included: two records with equal values of the key come out in the order
\* in which they went in.
C9_SortStable ==
  Sorted =>
    /\ IsPermutation
    /\ \A i, j \in 1..Len(expenses) :
         (i < j /\ KeyOf(expenses[i], result.arg) = KeyOf(expenses[j], result.arg))
           => Pos(expenses[i]) < Pos(expenses[j])

\* C10: under date-asc and date-desc every record without a dueDate comes
\* after every record with one, and the records with a date are in ascending
\* (date-asc) or descending (date-desc) order of date.
C10_UndatedLast ==
  (Sorted /\ result.arg \in {"date-asc", "date-desc"}) =>
    /\ IsPermutation
    /\ \A i, j \in 1..Len(expenses) :
         (expenses[i].dueDate # NullDate /\ expenses[j].dueDate = NullDate)
           => Pos(expenses[i]) < Pos(expenses[j])
    /\ \A i, j \in 1..Len(expenses) :
         (/\ HasCalendarDate(expenses[i]) /\ HasCalendarDate(expenses[j])
          /\ Pos(expenses[i]) < Pos(expenses[j]))
           => IF result.arg = "date-asc"
              THEN expenses[i].dueDate <= expenses[j].dueDate
              ELSE expenses[i].dueDate >= expenses[j].dueDate

\* The place of a recurrence in the custom order Monthly, Yearly, One-time.
Rank(e) ==
  CASE e.recurrence = "Monthly" -> 0
    [] e.recurrence = "Yearly" -> 1
    [] e.recurrence = "One-time" -> 2

---------------------------------------------------------------------------
(***************************************************************************)
(* getTopExpenses: the filtered (and sorted) records, sorted again by      *)
(* amount descending, the first `limit` of them.                           *)
(***************************************************************************)

\* Array.prototype.slice(0, limit) for limit >= 0.
SliceTo(s, limit) == SubSeq(s, 1, IF limit < Len(s) THEN limit ELSE Len(s))

getTopExpenses(limit, exps, filters, t, zone, eng) ==
  SliceTo(sortExpenses(getFilteredExpenses(exps, filters, t, zone, eng),
                       "amount-desc", eng),
          limit)

\* The default limit, which is also what ui.js passes.
DefaultLimit == 8

Limits == {1, 2, DefaultLimit}

GetTopExpenses(limit) ==
  /\ Returns("getTopExpenses", limit,
             getTopExpenses(limit, expenses, activeFilters, today, tz, engine))
  /\ Quiet
  /\ UNCHANGED << Store, Host, activeFilters >>

(***************************************************************************)
(* TopSpec: getTopExpenses under every sort key, over stored collections   *)
(* in which records of equal amount differ in the other fields.            *)
(***************************************************************************)
TopInit == LoadedInit(StoredCollections(SortPool, MaxSorted), {0}, Engines)

TopNext ==
  \/ \E sortBy \in SortKeys : SetSorting(sortBy)
  \/ RemoveFilter("date")
  \/ \E limit \in Limits : GetTopExpenses(limit)

TopSpec == TopInit /\ [][TopNext]_vars

Top == result.op = "getTopExpenses"

\* The returned records are min(limit, n) records of the filtered set, each
\* once, in non-increasing order of amount, none smaller than one left out.
TopByAmount ==
  LET n == Len(FilteredNow)
      top == result.val
  IN  /\ Len(top) = IF result.arg < n THEN result.arg ELSE n
      /\ \A k \in 1..Len(top) : \E i \in 1..n : FilteredNow[i] = top[k]
      /\ \A k, l \in 1..Len(top) : k < l =>
           top[k] # top[l] /\ top[k].amount >= top[l].amount
      /\ \A i \in 1..n :
           (\A k \in 1..Len(top) : top[k] # FilteredNow[i]) =>
             \A k \in 1..Len(top) : top[k].amount >= FilteredNow[i].amount

\* The same sequence is returned under every other sort key.
TopWhateverSortKey ==
  \A sortBy \in SortKeys :
    getTopExpenses(result.arg, expenses, setSorting(activeFilters, sortBy),
                   today, tz, engine) = result.val

\* C12: getTopExpenses(limit) returns min(limit, n) records of the filtered
\* set in non-increasing order of amount, none with an amount smaller than a
\* record left out, and the returned sequence is the same whatever the
\* active sort key is.
C12_TopExpenses == Top => (TopByAmount /\ TopWhateverSortKey)

---------------------------------------------------------------------------
(***************************************************************************)
(* Budget and income (data.js: setMonthlyBudget, setMonthlyIncome).  The   *)
(* in-memory value is assigned first; when a user is logged in the         *)
(* function then awaits supabaseClient.updateUserBudget and does not look  *)
(* at what it returns.                                                     *)
(***************************************************************************)

\* What handleSetBudget (amount > 0) and handleSetIncome (amount >= 0) pass.
Budgets == {500, 900}
Incomes == {0, 3000, 4000}

\* The locals of a suspended setMonthlyBudget / setMonthlyIncome, with the
\* in-memory value the function found.
ScalarCall(op, amount, before) == [op |-> op, amount |-> amount, before |-> before]

SetMonthlyBudgetLocal(amount) ==
  /\ ~isLoggedIn
  /\ monthlyBudget' = amount
  /\ localScalars' = [localScalars EXCEPT !.monthlyBudget = amount]
  /\ returned' = "undefined"
  /\ alert' = ""
  /\ result' = NoOp
  /\ UNCHANGED << expenses, localExpenses, currentUser, pending, monthlyIncome,
                  clock, today, tz, engine, remoteExpenses, activeFilters >>

\* setMonthlyBudget, logged in, up to the await.
SetMonthlyBudgetCall(amount) ==
  /\ isLoggedIn
  /\ monthlyBudget' = amount
  /\ pending' = pending (+) SetToBag({ScalarCall("budget", amount, monthlyBudget)})
  /\ returned' = "pending"
  /\ alert' = ""
  /\ result' = NoOp
  /\ UNCHANGED << expenses, localExpenses, currentUser, monthlyIncome,
                  localScalars, clock, today, tz, engine, remoteExpenses, activeFilters >>

\* setMonthlyBudget / setMonthlyIncome after the await: updateUserBudget has
\* returned { data } or { error }, and the function ends.
ScalarReturn(call, outcome) ==
  /\ BagIn(call, pending)
  /\ call.op \in {"budget", "income"}
  /\ pending' = pending (-) SetToBag({call})
  /\ Returns("updateUserBudget", call, outcome)
  /\ returned' = "undefined"
  /\ alert' = ""
  /\ UNCHANGED << expenses, localExpenses, currentUser, Scalars, clock,
                  today, tz, engine, remoteExpenses, activeFilters >>

SetMonthlyIncomeLocal(amount) ==
  /\ ~isLoggedIn
  /\ monthlyIncome' = amount
  /\ localScalars' = [localScalars EXCEPT !.monthlyIncome = amount]
  /\ returned' = "undefined"
  /\ alert' = ""
  /\ result' = NoOp
  /\ UNCHANGED << expenses, localExpenses, currentUser, pending, monthlyBudget,
                  clock, today, tz, engine, remoteExpenses, activeFilters >>

SetMonthlyIncomeCall(amount) ==
  /\ isLoggedIn
  /\ monthlyIncome' = amount
  /\ pending' = pending (+) SetToBag({ScalarCall("income", amount, monthlyIncome)})
  /\ returned' = "pending"
  /\ alert' = ""
  /\ result' = NoOp
  /\ UNCHANGED << expenses, localExpenses, currentUser, monthlyBudget,
                  localScalars, clock, today, tz, engine, remoteExpenses, activeFilters >>

(***************************************************************************)
(* BudgetSpec: the two setters, with a session and without.                *)
(***************************************************************************)
BudgetNext ==
  \/ \E amount \in Budgets : SetMonthlyBudgetLocal(amount)
  \/ \E amount \in Incomes : SetMonthlyIncomeLocal(amount)
  \/ \E amount \in Budgets : InFlight < MaxPending /\ SetMonthlyBudgetCall(amount)
  \/ \E amount \in Incomes : InFlight < MaxPending /\ SetMonthlyIncomeCall(amount)
  \/ \E call \in BagToSet(pending), outcome \in BackendOutcomes :
       ScalarReturn(call, outcome)

BudgetSpec == Init /\ [][BudgetNext]_vars

\* C13: when the backend write of setMonthlyBudget or setMonthlyIncome
\* fails, the in-memory monthlyBudget / monthlyIncome has, once the call is
\* over, the value it had before the call.
C13_FailedWriteKeepsValue ==
  [][(result'.op = "updateUserBudget" /\ result'.val = "error") =>
       IF result'.arg.op = "budget"
       THEN monthlyBudget' = result'.arg.before
       ELSE monthlyIncome' = result'.arg.before]_vars

---------------------------------------------------------------------------
(***************************************************************************)
(* Sessions (utils.js: handleLogin, handleLogout; main.js: the listeners   *)
(* of user-logged-in and user-logged-out; exportImport.js: confirmImport). *)
(***************************************************************************)

\* What the backend holds for the user: records with the backend's ids.
RemoteId == 11

RemoteCollections ==
  { <<>>,
    << WithId(Data("rent", "Housing", "Monthly", 100, 20261101), RemoteId),
       WithId(Data("gift", "Food", "One-time", 600, 20261130), RemoteId + 1) >> }

\* handleLogin once login() has stored the user: the user-logged-in listener
\* runs loadFromSupabase up to `await supabaseClient.getExpenses()`.
Login ==
  /\ ~isLoggedIn
  /\ currentUser' = "user"
  /\ pending' = pending (+) SetToBag({Call("load", NoId, Hole, 0, 0)})
  /\ returned' = "pending"
  /\ alert' = ""
  /\ UNCHANGED << expenses, localExpenses, Env >>

\* loadFromSupabase after the await: on error nothing is replaced; the user
\* row has no monthly_budget / monthly_income, so both become 0.
LoadReturn(call, outcome, data) ==
  /\ BagIn(call, pending)
  /\ call.op = "load"
  /\ pending' = pending (-) SetToBag({call})
  /\ IF outcome = "error"
     THEN UNCHANGED << expenses, monthlyBudget, monthlyIncome >>
     ELSE /\ expenses' = data
          /\ monthlyBudget' = 0
          /\ monthlyIncome' = 0
  /\ returned' = "undefined"
  /\ alert' = ""
  /\ UNCHANGED << localExpenses, localScalars, currentUser, clock, today, tz,
                  engine, remoteExpenses, activeFilters, result >>

\* handleLogout: logout() forgets the user; the user-logged-out listener
\* calls data.clearAllExpenses, which data.js exports but never defines, so
\* the call throws and the listener ends there.
Logout ==
  /\ isLoggedIn
  /\ currentUser' = "none"
  /\ returned' = "throws"
  /\ alert' = ""
  /\ UNCHANGED << expenses, localExpenses, pending, Env >>

\* Files confirmImport accepts.
ImportFiles ==
  { << WithId(Data("gift", "Food", "Yearly", 1200, 20260315), 21) >> }

\* confirmImport and the reload that follows it: the file replaces the stored
\* collection, the page starts again, and initializeData reads the store
\* (no session) or starts loadFromSupabase (session).
Import(file) ==
  /\ localExpenses' = file
  /\ IF isLoggedIn
     THEN /\ expenses' = <<>>
          /\ monthlyBudget' = 0
          /\ monthlyIncome' = 0
          /\ pending' = SetToBag({Call("load", NoId, Hole, 0, 0)})
     ELSE /\ expenses' = file
          /\ monthlyBudget' = localScalars.monthlyBudget
          /\ monthlyIncome' = localScalars.monthlyIncome
          /\ pending' = EmptyBag
  /\ activeFilters' =
       setPredefinedDateRange(InitialFilters, "current-year", today, tz)
  /\ result' = NoOp
  /\ returned' = "none"
  /\ alert' = ""
  /\ UNCHANGED << localScalars, currentUser, clock, today, tz, engine, remoteExpenses >>

(***************************************************************************)
(* SessionSpec: the record store across login, logout and import, with     *)
(* operations on different records in flight together.                     *)
(***************************************************************************)
MaxRacing == 2

\* An id no record has.
UnknownId == 99

SessionIds == {1, RemoteId, UnknownId}

\* The form of the edit dialog.
EditData == Data("rent", "Housing", "Yearly", 1200, 20261101)

SessionStored ==
  { <<>>, << WithId(Data("rent", "Housing", "Monthly", 100, 20261101), 1) >> }

SessionInit == LoadedInit(SessionStored, {0}, {"binary"})

SessionNext ==
  \/ InFlight < MaxRacing /\ Login
  \/ \E call \in BagToSet(pending), outcome \in BackendOutcomes,
        data \in RemoteCollections : LoadReturn(call, outcome, data)
  \/ Logout
  \/ \E file \in ImportFiles : Import(file)
  \/ AddExpenseLocal(EditData)
  \/ \E id \in SessionIds : UpdateExpenseNoMatch(id)
  \/ \E id \in SessionIds : UpdateExpenseLocal(id, EditData)
  \/ \E id \in SessionIds : DeleteExpenseLocal(id)
  \/ \E id \in SessionIds :
       InFlight < MaxRacing /\ UpdateExpenseCall(id, EditData)
  \/ \E call \in BagToSet(pending), outcome \in BackendOutcomes :
       UpdateExpenseReturn(call, outcome)
  \/ \E id \in SessionIds : InFlight < MaxRacing /\ DeleteExpenseCall(id)
  \/ \E call \in BagToSet(pending), outcome \in BackendOutcomes :
       DeleteExpenseReturn(call, outcome)

SessionSpec == SessionInit /\ [][SessionNext]_vars

\* No record of the collection has this id.
MatchesNone(id) == \A i \in 1..Len(expenses) : expenses[i].id # id

NotFound == returned' = "false" /\ expenses' = expenses

\* C14: updateExpense and deleteExpense with an id that matches no record of
\* the collection return false, without throwing, and leave the collection
\* as it was, with a user logged in and without.
C14_UnknownIdIsNoOp ==
  [][MatchesNone(UnknownId) =>
       /\ UpdateExpenseNoMatch(UnknownId) => NotFound
       /\ DeleteExpenseLocal(UnknownId) => NotFound
       /\ \A call \in BagToSet(pending), outcome \in BackendOutcomes :
            (call.op = "delete" /\ call.id = UnknownId
               /\ DeleteExpenseReturn(call, outcome)) => NotFound]_vars

---------------------------------------------------------------------------
(***************************************************************************)
(* Record store: what the operations return.                               *)
(***************************************************************************)

\* What each operation returns once the record is stored.
ReturnedWhenStored(op) ==
  CASE op = "add" -> "undefined"
    [] op = "update" -> "true"
    [] op = "delete" -> "true"

\* The alert each operation raises when the backend write failed.
AlertWhenFailed(op) ==
  CASE op = "add" -> "Error saving expense"
    [] op = "update" -> "Error updating expense"
    [] op = "delete" -> "Error deleting expense"

\* C15: addExpense, updateExpense and deleteExpense each return a value that
\* tells success from failure: what is returned when the backend write
\* failed differs from what is returned when the record was stored.
C15_ResultTellsOutcome ==
  [][\A op \in {"add", "update", "delete"} :
       alert' = AlertWhenFailed(op) => returned' # ReturnedWhenStored(op)]_vars

\* The backend writes in flight: the delete and update requests among the
\* pending calls.
BackendWrites == { call \in BagToSet(pending) : call.op \in {"delete", "update"} }

\* C16: after the logout event (user-logged-out, whose listener calls
\* clearAllExpenses) the in-memory collection is empty, and the clear issues
\* no backend delete or update.
C16_LogoutClears ==
  [][Logout => (expenses' = <<>> /\ BackendWrites' \subseteq BackendWrites)]_vars

\* The records under the local 'expenses' key, by id.
StoredIds == { localExpenses[i].id : i \in 1..Len(localExpenses) }

\* A step of deleteExpense that reached its filter, or of confirmImport.
DeleteOrImport ==
  \/ \E id \in Ids \cup SessionIds : DeleteExpenseLocal(id)
  \/ \E call \in BagToSet(pending), outcome \in BackendOutcomes :
       call.op = "delete" /\ DeleteExpenseReturn(call, outcome)
  \/ \E file \in ImportFiles : Import(file)

\* C17: whenever no user is logged in and no operation is in flight, the
\* local 'expenses' key holds exactly the in-memory collection; and a locally
\* persisted record only disappears through a delete or an import.
C17_LocalStoreInSync ==
  /\ []((~isLoggedIn /\ pending = EmptyBag) => localExpenses = expenses)
  /\ [][(StoredIds \ StoredIds' # {}) => DeleteOrImport]_vars

\* The ids of a collection, slot by slot.
IdsOf(exps) == [i \in 1..Len(exps) |-> exps[i].id]

\* A step of updateExpense, in either mode.
UpdateStep ==
  \/ \E id \in Ids, upd \in FormData : UpdateExpenseLocal(id, upd)
  \/ \E call \in BagToSet(pending), outcome \in BackendOutcomes :
       UpdateExpenseReturn(call, outcome)

\* C18: no two records of the in-memory collection share an id, and
\* updateExpense never changes the id of a record.
C18_IdsUnique ==
  /\ [](\A i, j \in 1..Len(expenses) :
          i # j => expenses[i].id # expenses[j].id)
  /\ [][UpdateStep => IdsOf(expenses') = IdsOf(expenses)]_vars

---------------------------------------------------------------------------
(***************************************************************************)
(* JSON import (exportImport.js: confirmImport).  The four fields the      *)
(* import inspects carry their typeof.                                     *)
(***************************************************************************)

Num(n) == << "number", n >>

Str(s) == << "string", s >>

typeof(v) == v[1]

MaxImported == 2

\* Items an import file may hold: a record as the export writes it, records
\* with a zero amount, an empty category, an unknown recurrence, an amount
\* written as a string, and a record of the old structure (expenseType).
ImportPool ==
  { [id |-> 21, name |-> Str("gift"), category |-> Str("Food"),
     recurrence |-> Str("Yearly"), amount |-> Num(1200), dueDate |-> 20260315],
    [id |-> 22, name |-> Str("gift"), category |-> Str("Food"),
     recurrence |-> Str("Yearly"), amount |-> Num(0), dueDate |-> 20260315],
    [id |-> 23, name |-> Str("rent"), category |-> Str(""),
     recurrence |-> Str("Monthly"), amount |-> Num(100), dueDate |-> 20261101],
    [id |-> 24, name |-> Str("rent"), category |-> Str("Housing"),
     recurrence |-> Str("Weekly"), amount |-> Num(100), dueDate |-> 20261101],
    [id |-> 25, name |-> Str("rent"), category |-> Str("Housing"),
     recurrence |-> Str("Monthly"), amount |-> Str("100"), dueDate |-> 20261101],
    [id |-> 26, name |-> Str("rent"), category |-> Str("Housing"),
     expenseType |-> Str("Recurring"), amount |-> Num(100), dueDate |-> 20261101] }

RawFiles == UNION { [1..n -> ImportPool] : n \in 0..MaxImported }

\* The map of confirmImport: an item of the old structure gets a recurrence
\* and loses its expenseType.
MigrateItem(exp) ==
  IF "expenseType" \in DOMAIN exp /\ "recurrence" \notin DOMAIN exp
  THEN [f \in (DOMAIN exp \ {"expenseType"}) \cup {"recurrence"} |->
          IF f = "recurrence"
          THEN IF exp.expenseType = Str("Recurring")
               THEN Str("Monthly") ELSE Str("One-time")
          ELSE exp[f]]
  ELSE exp

\* The filter of confirmImport: four typeof tests.
ValidItem(exp) ==
  /\ "name" \in DOMAIN exp /\ typeof(exp.name) = "string"
  /\ "category" \in DOMAIN exp /\ typeof(exp.category) = "string"
  /\ "amount" \in DOMAIN exp /\ typeof(exp.amount) = "number"
  /\ "recurrence" \in DOMAIN exp /\ typeof(exp.recurrence) = "string"

\* The record JSON.parse gives back for an item the import stored.
ParsedItem(exp) ==
  [f \in DOMAIN exp |-> IF f \in {"id", "dueDate"} THEN exp[f] ELSE exp[f][2]]

\* validData of confirmImport, as it is read back from the store.
confirmImport(file) ==
  LET migrated == [i \in 1..Len(file) |-> MigrateItem(file[i])]
      validData == SelectSeq(migrated, ValidItem)
  IN  [i \in 1..Len(validData) |-> ParsedItem(validData[i])]

\* The import dialog confirmed on a parsed file.
ConfirmImport(file) == Import(confirmImport(file))

ImportIds == {1, 21, 24}

ImportNext ==
  \/ \E file \in RawFiles : ConfirmImport(file)
  \/ AddExpenseLocal(EditData)
  \/ \E id \in ImportIds : UpdateExpenseLocal(id, EditData)
  \/ \E id \in ImportIds : DeleteExpenseLocal(id)

ImportSpec == SessionInit /\ [][ImportNext]_vars

\* C19: in every reachable state, including after load from storage, JSON
\* import and migration, every record of the collection has amount > 0, a
\* recurrence among Monthly, Yearly and One-time, and a non-empty category.
C19_RecordsValid ==
  \A i \in 1..Len(expenses) :
    /\ expenses[i].amount > 0
    /\ expenses[i].recurrence \in {"Monthly", "Yearly", "One-time"}
    /\ expenses[i].category # ""

---------------------------------------------------------------------------
(***************************************************************************)
(* RangeSpec: the filter state under every operation that writes it.       *)
(***************************************************************************)

\* What the two date inputs may hold when the apply button is pressed; an
\* empty input is the empty string.
DateInputs ==
  CustomRanges \cup { <<20260301, NullDate>>, <<NullDate, 20260331>> }

RangeSortKeys == {"name-asc", "amount-desc"}

RangeInit == LoadedInit({<<>>}, Zones, {"binary"})

RangeNext ==
  \/ \E type \in TypeChoices, recurrence \in RecurrenceChoices :
       UpdateFilters(type, recurrence)
  \/ \E range \in DateInputs : ApplyDateRange(range[1], range[2])
  \/ \E range \in PredefinedRanges \cup {"all"} : SetPredefinedDateRange(range)
  \/ \E filterType \in {"type", "recurrence", "date"} : RemoveFilter(filterType)
  \/ \E sortBy \in RangeSortKeys : SetSorting(sortBy)

RangeSpec == RangeInit /\ [][RangeNext]_vars

\* C20: in every reachable filter state, after any sequence of updateFilters,
\* setDateRange, setPredefinedDateRange, removeFilter and setSorting, dateFrom
\* and dateTo are both set or both unset.
C20_BoundsPaired ==
  (activeFilters.dateFrom = <<>>) <=> (activeFilters.dateTo = <<>>)

\* The range removed through its badge, with a category chosen and another
\* sort key set.
C20_Witness ==
  /\ activeFilters.dateFrom = <<>>
  /\ activeFilters.dateTo = <<>>
  /\ activeFilters.type # ""
  /\ activeFilters.sortBy # "name-asc"

---------------------------------------------------------------------------
(***************************************************************************)
(* PresetSpec: the predefined date ranges on any day of the year.          *)
(***************************************************************************)

\* The instant hh:00Z of the civil date y-m-d.
Instant(y, m, d, hh) == DaysFromCivil(y, m, d) * 24 + hh

\* Values of new Date(): days in January to March, a leap day, the last day
\* of a year, and an instant that is still the day before west of Greenwich.
Todays ==
  { Instant(2026, 1, 1, 2), Instant(2026, 1, 31, 12), Instant(2026, 2, 15, 12),
    Instant(2024, 2, 29, 23), Instant(2026, 3, 31, 12), Noon,
    Instant(2026, 12, 31, 22) }

\* Names setPredefinedDateRange has no case for.
OtherRanges == {"all", "next-year"}

PresetInit ==
  /\ expenses = <<>>
  /\ localExpenses = <<>>
  /\ currentUser = "none"
  /\ pending = EmptyBag
  /\ clock = 1
  /\ today \in Todays
  /\ tz \in Zones
  /\ engine = "binary"
  /\ remoteExpenses = <<>>
  /\ monthlyBudget = 0
  /\ monthlyIncome = 0
  /\ localScalars = NoScalars
  /\ activeFilters =
       setPredefinedDateRange(InitialFilters, "current-year", today, tz)
  /\ returned = "none"
  /\ alert = ""
  /\ result = NoOp

\* setPredefinedDateRange(range); `result` keeps the name passed and the
\* filter state the call found.
CallSetPredefinedDateRange(range) ==
  /\ activeFilters' = setPredefinedDateRange(activeFilters, range, today, tz)
  /\ Returns("setPredefinedDateRange", range, activeFilters)
  /\ Quiet
  /\ UNCHANGED << Store, Host >>

PresetNext ==
  \/ \E range \in PredefinedRanges \cup OtherRanges :
       CallSetPredefinedDateRange(range)
  \/ \E type \in TypeChoices, recurrence \in RecurrenceChoices :
       UpdateFilters(type, recurrence)
  \/ \E range \in CustomRanges : ApplyDateRange(range[1], range[2])
  \/ RemoveFilter("date")
  \/ \E sortBy \in RangeSortKeys : SetSorting(sortBy)

PresetSpec == PresetInit /\ [][PresetNext]_vars

Preset == result.op = "setPredefinedDateRange"

\* C21: setPredefinedDateRange(name) with a name that is none of
\* current-year, current-month, last-month, last-3-months and year-to-date
\* leaves type, recurrence, sortBy, dateFrom and dateTo as they were.
C21_UnknownRangeIsNoOp ==
  (Preset /\ result.arg \notin PredefinedRanges) => activeFilters = result.val

\* 'all' chosen while a custom range, a category and a sort key are set.
C21_Witness ==
  /\ Preset
  /\ result.arg = "all"
  /\ BothBoundsSet
  /\ activeFilters.dateFrom[1] = TimeValue(20260301)
  /\ activeFilters.type # ""
  /\ activeFilters.sortBy # "name-asc"

\* The calendar of the specification: the length of a month, and the month
\* k months before month m (1..12) of year y.
DaysIn(y, m) ==
  IF m = 2
  THEN IF (y % 4 = 0 /\ y % 100 # 0) \/ y % 400 = 0 THEN 29 ELSE 28
  ELSE IF m \in {4, 6, 9, 11} THEN 30 ELSE 31

MonthsBefore(y, m, k) ==
  IF m > k THEN [y |-> y, m |-> m - k] ELSE [y |-> y - 1, m |-> m - k + 12]

CivilDay(y, m, d) == y * 10000 + m * 100 + d

\* The range runs from the calendar day `from` to the calendar day `to`.
RangeIs(from, to) ==
  /\ BothBoundsSet
  /\ LocalDay(activeFilters.dateFrom[1]) = from
  /\ LocalDay(activeFilters.dateTo[1]) = to
  /\ activeFilters.dateFrom[1] <= activeFilters.dateTo[1]

\* C22: on every day, January to March included, setPredefinedDateRange sets
\* current-year to Jan 1 .. Dec 31 of today's year, current-month to the
\* first .. last day of today's month, last-month to the first .. last day of
\* the month before, last-3-months to the first day of the month three
\* months before .. today, year-to-date to Jan 1 .. today; dateFrom <= dateTo.
C22_PredefinedRanges ==
  LET y == LocalFields(today, tz).y
      m == LocalFields(today, tz).m
      last == MonthsBefore(y, m, 1)
      third == MonthsBefore(y, m, 3)
  IN  Preset =>
        /\ result.arg = "current-year" =>
             RangeIs(CivilDay(y, 1, 1), CivilDay(y, 12, 31))
        /\ result.arg = "current-month" =>
             RangeIs(CivilDay(y, m, 1), CivilDay(y, m, DaysIn(y, m)))
        /\ result.arg = "last-month" =>
             RangeIs(CivilDay(last.y, last.m, 1),
                     CivilDay(last.y, last.m, DaysIn(last.y, last.m)))
        /\ result.arg = "last-3-months" =>
             /\ RangeIs(CivilDay(third.y, third.m, 1), LocalDay(today))
             /\ activeFilters.dateTo[1] = today
        /\ result.arg = "year-to-date" =>
             /\ RangeIs(CivilDay(y, 1, 1), LocalDay(today))
             /\ activeFilters.dateTo[1] = today

\* last-3-months chosen in January: the range starts in October of the year
\* before.
C22_Witness ==
  /\ Preset
  /\ result.arg = "last-3-months"
  /\ LocalFields(today, tz).m = 1
  /\ LocalFields(activeFilters.dateFrom[1], tz).y = LocalFields(today, tz).y - 1

---------------------------------------------------------------------------
(***************************************************************************)
(* Budget percentage (utils.js: calculateBudgetPercentage).  The current   *)
(* amount is a monthly total, in twelfths; the budget is in whole units.   *)
(***************************************************************************)

\* Math.round of the quotient p / q (q > 0): the nearest integer, a half
\* going up.
MathRound(p, q) == (2 * p + q) \div (2 * q)

MathMin(a, b) == IF a <= b THEN a ELSE b

\* calculateBudgetPercentage without the Math.min.
calculateBudgetPercentageUncapped(current, budget) ==
  IF budget <= 0 THEN 0
  ELSE MathRound(current * 100, budget * MonthsPerYear)

calculateBudgetPercentage(current, budget) ==
  IF budget <= 0 THEN 0
  ELSE MathMin(100, MathRound(current * 100, budget * MonthsPerYear))

MaxCurrent == 30

\* Monthly totals, in twelfths: from half a unit below zero to MaxCurrent
\* twelfths, and 1200 units.
Currents == ((0 - 6)..MaxCurrent) \cup {1200 * MonthsPerYear}

BudgetAmounts == {0 - 1, 0, 1, 2, 1000}

CalculateBudgetPercentage(current, budget) ==
  /\ Returns("calculateBudgetPercentage", << current, budget >>,
             calculateBudgetPercentage(current, budget))
  /\ Quiet
  /\ UNCHANGED << Store, Host, activeFilters >>

PercentInit == LoadedInit({<<>>}, {0}, {"binary"})

PercentNext ==
  \E current \in Currents, budget \in BudgetAmounts :
    CalculateBudgetPercentage(current, budget)

PercentSpec == PercentInit /\ [][PercentNext]_vars

PercentOf == result.op = "calculateBudgetPercentage"

\* n is the integer nearest to current / budget * 100, a half going up.
NearestPercent(n, current, budget) ==
  LET p == current * 100
      q == budget * MonthsPerYear
  IN  2 * q * n - q <= 2 * p /\ 2 * p < 2 * q * n + q

\* C23: calculateBudgetPercentage(current, budget) is 0 when budget <= 0 and
\* otherwise the smaller of 100 and current / budget * 100 rounded to the
\* nearest integer; for current >= 0 it is an integer in 0..100.
C23_BudgetPercentage ==
  PercentOf =>
    LET current == result.arg[1]
        budget == result.arg[2]
    IN  /\ budget <= 0 => result.val = 0
        /\ budget > 0 =>
             \E n \in (0 - 100)..(200 * MonthsPerYear * 100) :
               /\ NearestPercent(n, current, budget)
               /\ result.val = IF n < 100 THEN n ELSE 100
        /\ current >= 0 => result.val \in 0..100

\* The example: 1200 spent against a budget of 1000 shows 100.
C23_Witness ==
  /\ PercentOf
  /\ result.arg = << 1200 * MonthsPerYear, 1000 >>
  /\ result.val = 100

---------------------------------------------------------------------------
(***************************************************************************)
(* Legacy migration (data.js: migrateExpensesData; exportImport.js:        *)
(* confirmImport).  A record is a function of the properties it has.       *)
(***************************************************************************)

HasOwnProperty(exp, f) == f \in DOMAIN exp

\* `needsMigration`: some record has expenseType and no recurrence.
NeedsMigration(exps) ==
  \E i \in 1..Len(exps) :
    HasOwnProperty(exps[i], "expenseType") /\ ~HasOwnProperty(exps[i], "recurrence")

\* The map callback of migrateExpensesData; `exp.recurrence || 'Monthly'`.
MigrateRecord(exp) ==
  IF ~HasOwnProperty(exp, "expenseType") THEN exp
  ELSE [f \in (DOMAIN exp \ {"expenseType"}) \cup {"recurrence"} |->
          IF f = "recurrence"
          THEN IF exp.expenseType = "Recurring"
               THEN IF HasOwnProperty(exp, "recurrence") /\ exp.recurrence # ""
                    THEN exp.recurrence ELSE "Monthly"
               ELSE "One-time"
          ELSE exp[f]]

migrateExpensesData(exps) ==
  IF NeedsMigration(exps)
  THEN [i \in 1..Len(exps) |-> MigrateRecord(exps[i])]
  ELSE exps

\* main.js: migrateExpensesData() on the collection initializeData read.
MigrateExpensesData ==
  /\ expenses' = migrateExpensesData(expenses)
  /\ localExpenses' = IF NeedsMigration(expenses)
                      THEN saveExpenses(expenses') ELSE localExpenses
  /\ result' = NoOp
  /\ Quiet
  /\ UNCHANGED << currentUser, pending, clock, Scalars, Host, activeFilters >>

MaxLegacy == 2

\* Records a store written by an earlier version may hold: of the old
\* structure, of the new one, and with both properties.
LegacyPool ==
  { [id |-> 1, name |-> "rent", category |-> "Housing",
     expenseType |-> "Recurring", amount |-> 100, dueDate |-> 20261101],
    [id |-> 2, name |-> "gift", category |-> "Food",
     expenseType |-> "One-time", amount |-> 600, dueDate |-> 20261130],
    [id |-> 3, name |-> "gift", category |-> "Food",
     recurrence |-> "Yearly", amount |-> 1200, dueDate |-> 20260315],
    [id |-> 4, name |-> "gift", category |-> "Food", expenseType |-> "One-time",
     recurrence |-> "Yearly", amount |-> 1200, dueDate |-> 20260315],
    [id |-> 5, name |-> "rent", category |-> "Housing", expenseType |-> "Recurring",
     recurrence |-> "Yearly", amount |-> 1200, dueDate |-> 20261101],
    [id |-> 6, name |-> "rent", category |-> "Housing", expenseType |-> "Fixed",
     amount |-> 100, dueDate |-> 20261101],
    [id |-> 7, name |-> "rent", category |-> "Housing", expenseType |-> "Recurring",
     recurrence |-> "", amount |-> 100, dueDate |-> 20261101] }

LegacyStored == UNION { [1..n -> LegacyPool] : n \in 0..MaxLegacy }

\* A stored record as JSON.stringify writes it to a file.
Stringified(exp) ==
  [f \in DOMAIN exp |->
     IF f \in {"id", "dueDate"} THEN exp[f]
     ELSE IF f = "amount" THEN Num(exp[f]) ELSE Str(exp[f])]

LegacyFiles ==
  { [i \in 1..Len(exps) |-> Stringified(exps[i])] : exps \in LegacyStored }

MigrateInit == LoadedInit(LegacyStored, {0}, {"binary"})

MigrateNext ==
  \/ MigrateExpensesData
  \/ \E file \in LegacyFiles : ConfirmImport(file)

MigrateSpec == MigrateInit /\ [][MigrateNext]_vars

\* What the claim says of one record, before and after.
Migrated(old, new) ==
  /\ (HasOwnProperty(old, "expenseType") /\ ~HasOwnProperty(old, "recurrence")) =>
       /\ HasOwnProperty(new, "recurrence")
       /\ new.recurrence =
            IF old.expenseType = "Recurring" THEN "Monthly" ELSE "One-time"
       /\ ~HasOwnProperty(new, "expenseType")
  /\ HasOwnProperty(old, "recurrence") =>
       /\ HasOwnProperty(new, "recurrence")
       /\ new.recurrence = old.recurrence

MigratedInPlace ==
  MigrateExpensesData =>
    /\ Len(expenses') = Len(expenses)
    /\ \A i \in 1..Len(expenses) : Migrated(expenses[i], expenses'[i])

MigratedOnImport ==
  \A file \in LegacyFiles :
    ConfirmImport(file) =>
      /\ Len(expenses') = Len(file)
      /\ \A i \in 1..Len(file) : Migrated(ParsedItem(file[i]), expenses'[i])

\* C24: migrateExpensesData and confirmImport both give a record with
\* expenseType 'Recurring' and no recurrence the recurrence 'Monthly', a
\* record with another expenseType and no recurrence the recurrence
\* 'One-time', remove the expenseType of both, and leave the recurrence of a
\* record that has one as it is.
C24_LegacyMigration == [][MigratedInPlace /\ MigratedOnImport]_vars

---------------------------------------------------------------------------
(***************************************************************************)
(* RoundTripSpec: the record store with export and import.                 *)
(***************************************************************************)

\* exportToJson: the file holds what is under the local 'expenses' key.
exportToJson(stored) == [i \in 1..Len(stored) |-> Stringified(stored[i])]

\* The export button, then the import of the file it wrote, confirmed.
RoundTrip == ConfirmImport(exportToJson(localExpenses))

RoundTripNext ==
  \/ Next
  \/ RoundTrip
  \/ \E call \in BagToSet(pending), outcome \in BackendOutcomes,
        data \in RemoteCollections : LoadReturn(call, outcome, data)

RoundTripSpec == Init /\ [][RoundTripNext]_vars

\* The records of a collection, in their user-visible fields.
Visible(exps) ==
  { << exps[i].name, exps[i].category, exps[i].recurrence, exps[i].amount,
       exps[i].dueDate >> : i \in 1..Len(exps) }

\* C25: in local and in logged-in mode, exporting the records with
\* exportToJson and importing that file with confirmImport yields a record
\* set equal, in the user-visible fields, to the in-memory collection at
\* export time.
C25_RoundTrip == [][RoundTrip => Visible(localExpenses') = Visible(expenses)]_vars

---------------------------------------------------------------------------
(***************************************************************************)
(* QuerySpec: the six query functions on one collection.                   *)
(***************************************************************************)

QueryInit == SortInit

QueryNext ==
  \/ \E sortBy \in RangeSortKeys : SetSorting(sortBy)
  \/ GetFilteredExpenses
  \/ \E sortBy \in SortKeys : SortExpenses(sortBy)
  \/ \E limit \in Limits : GetTopExpenses(limit)
  \/ CalculateMonthlyTotal
  \/ CalculateYearlyTotal
  \/ \E period \in Periods : GetCategorySums(period)

QuerySpec == QueryInit /\ [][QueryNext]_vars

\* A step of one of the query functions.
QueryStep ==
  \/ GetFilteredExpenses
  \/ \E sortBy \in SortKeys : SortExpenses(sortBy)
  \/ \E limit \in Limits : GetTopExpenses(limit)
  \/ CalculateMonthlyTotal
  \/ CalculateYearlyTotal
  \/ \E period \in Periods : GetCategorySums(period)

\* C26: getFilteredExpenses, sortExpenses, getTopExpenses,
\* calculateMonthlyTotal, calculateYearlyTotal and getCategorySums leave the
\* in-memory collection (records, fields, order) and the filter state as
\* they were.
C26_QueriesReadOnly ==
  [][QueryStep => (expenses' = expenses /\ activeFilters' = activeFilters)]_vars

\* sortExpenses has returned the records in another order than the
\* collection holds them.
C26_Witness ==
  /\ result.op = "sortExpenses"
  /\ Len(result.val) = Len(expenses)
  /\ result.val # expenses

---------------------------------------------------------------------------
(***************************************************************************)
(* RaceSpec: a logged-in session whose collection has been loaded, with up *)
(* to MaxRacing store operations in flight together.                       *)
(***************************************************************************)

\* The collection loadFromSupabase left: one or two records.
RaceLoaded ==
  { << WithId(Data("rent", "Housing", "Monthly", 100, 20261101), RemoteId) >>,
    << WithId(Data("rent", "Housing", "Monthly", 100, 20261101), RemoteId),
       WithId(Data("gift", "Food", "One-time", 600, 20261130), RemoteId + 1) >> }

RaceInit ==
  /\ expenses \in RaceLoaded
  /\ localExpenses = <<>>
  /\ currentUser = "user"
  /\ pending = EmptyBag
  /\ clock = 1
  /\ today = Noon
  /\ tz = 0
  /\ engine = "binary"
  /\ remoteExpenses = <<>>
  /\ monthlyBudget = 0
  /\ monthlyIncome = 0
  /\ localScalars = NoScalars
  /\ activeFilters =
       setPredefinedDateRange(InitialFilters, "current-year", today, tz)
  /\ returned = "none"
  /\ alert = ""
  /\ result = NoOp

\* Ids the edit and delete dialogs pass: the loaded records, a record added
\* in this session.
RaceIds == {1, RemoteId, RemoteId + 1}

RaceNext ==
  \/ InFlight < MaxRacing /\ AddExpenseCall(EditData)
  \/ \E call \in BagToSet(pending), outcome \in BackendOutcomes :
       AddExpenseReturn(call, outcome)
  \/ \E id \in RaceIds : InFlight < MaxRacing /\ UpdateExpenseCall(id, EditData)
  \/ \E call \in BagToSet(pending), outcome \in BackendOutcomes :
       UpdateExpenseReturn(call, outcome)
  \/ \E id \in RaceIds : InFlight < MaxRacing /\ DeleteExpenseCall(id)
  \/ \E call \in BagToSet(pending), outcome \in BackendOutcomes :
       DeleteExpenseReturn(call, outcome)

RaceSpec == RaceInit /\ [][RaceNext]_vars

\* The entries of a collection other than the record with this id.
RECURSIVE Others(_, _)
Others(exps, id) ==
  IF exps = <<>> THEN <<>>
  ELSE IF Head(exps).id = id THEN Others(Tail(exps), id)
       ELSE << Head(exps) >> \o Others(Tail(exps), id)

\* C27: a logged-in updateExpense(id, fields) whose backend call succeeds
\* changes only the record with that id, and only if it is still in the
\* collection when the call completes, whatever delete or add of another
\* record completed meanwhile: no other record is overwritten and no entry
\* without an id is created.
C27_UpdateHitsItsRecord ==
  [][\A call \in BagToSet(pending) :
       (call.op = "update" /\ UpdateExpenseReturn(call, "ok")) =>
          /\ Others(expenses', call.id) = Others(expenses, call.id)
          /\ Len(expenses') = Len(expenses)]_vars

---------------------------------------------------------------------------
(***************************************************************************)
(* LogoutSpec: a logged-in session that may end while store operations     *)
(* are in flight.                                                          *)
(***************************************************************************)

LogoutNext ==
  \/ InFlight < MaxRacing /\ AddExpenseCall(EditData)
  \/ \E call \in BagToSet(pending), outcome \in BackendOutcomes :
       AddExpenseReturn(call, outcome)
  \/ \E id \in RaceIds : InFlight < MaxRacing /\ UpdateExpenseCall(id, EditData)
  \/ \E call \in BagToSet(pending), outcome \in BackendOutcomes :
       UpdateExpenseReturn(call, outcome)
  \/ Logout
  \/ AddExpenseLocal(EditData)
  \/ \E id \in RaceIds : DeleteExpenseLocal(id)

LogoutSpec == RaceInit /\ [][LogoutNext]_vars

\* An addExpense or updateExpense started in the session completes.
CompletesAfterLogout ==
  /\ ~isLoggedIn
  /\ \E call \in BagToSet(pending), outcome \in BackendOutcomes :
       AddExpenseReturn(call, outcome) \/ UpdateExpenseReturn(call, outcome)

\* C28: when the user logs out while a logged-in addExpense or updateExpense
\* is in flight, the completing operation puts no record of that user into
\* the in-memory collection and writes nothing to the local 'expenses' key.
C28_ModeHeldUntilCompletion ==
  [][CompletesAfterLogout =>
       (expenses' = expenses /\ localExpenses' = localExpenses)]_vars

---------------------------------------------------------------------------
(***************************************************************************)
(* BackendSpec: a logged-in session, one store operation at a time, with   *)
(* the backend's table followed row by row.  The backend never fails of    *)
(* its own: an insert succeeds, an update or a delete does what its        *)
(* request says.                                                           *)
(***************************************************************************)

\* supabase-client.js addExpense: the row inserted for expenseData, with the
\* id the backend gives it.  `category: expense.type` reads a property that
\* expenseData does not have: the row gets no category, written "".
InsertedRow(expenseData, id) ==
  [id |-> id, name |-> expenseData.name, category |-> "",
   amount |-> expenseData.amount, recurrence |-> expenseData.recurrence,
   date |-> expenseData.dueDate]

\* supabase-client.js updateExpense: mappedUpdates applied to a row.
\* `updates.type` is undefined, so the category is not among them.
UpdatedRow(row, updates) ==
  [row EXCEPT !.name = updates.name, !.amount = updates.amount,
              !.recurrence = updates.recurrence, !.date = updates.dueDate]

\* getExpenses and the map of loadFromSupabase: the collection a load gives
\* for these rows (the order of the rows aside).
LoadedFrom(rows) ==
  [i \in 1..Len(rows) |->
     [id |-> rows[i].id, name |-> rows[i].name, category |-> rows[i].category,
      recurrence |-> rows[i].recurrence, amount |-> rows[i].amount,
      dueDate |-> rows[i].date]]

RowIds(rows) == { rows[i].id : i \in 1..Len(rows) }

\* gen_random_uuid(): an id no row has.
FreshId(rows) ==
  IF rows = <<>> THEN RemoteId
  ELSE 1 + CHOOSE m \in RowIds(rows) : \A k \in RowIds(rows) : k <= m

RECURSIVE RowsWithout(_, _)
RowsWithout(rows, id) ==
  IF rows = <<>> THEN <<>>
  ELSE IF Head(rows).id = id THEN RowsWithout(Tail(rows), id)
       ELSE << Head(rows) >> \o RowsWithout(Tail(rows), id)

MaxRows == 2

\* addExpense, logged in, the insert accepted.
AddExpenseRemote(data) ==
  /\ isLoggedIn
  /\ validateExpenseData(data)
  /\ Len(expenses) < MaxExpenses
  /\ Len(remoteExpenses) < MaxRows
  /\ remoteExpenses' =
       Append(remoteExpenses,
              InsertedRow(createExpenseObject(data, clock), FreshId(remoteExpenses)))
  /\ expenses' = Append(expenses, createExpenseObject(data, clock))
  /\ returned' = "undefined"
  /\ alert' = ""
  /\ UNCHANGED << localExpenses, currentUser, pending, clock, today, tz, engine,
                  activeFilters, result, Scalars >>

\* updateExpense, logged in, of a record findIndex finds: `.eq('id', id)` with
\* `.single()` is an error when no row has the id.
UpdateExpenseRemote(id, upd) ==
  /\ isLoggedIn
  /\ FindIndex(expenses, id) # 0
  /\ IF id \in RowIds(remoteExpenses)
     THEN /\ remoteExpenses' =
               [i \in 1..Len(remoteExpenses) |->
                  IF remoteExpenses[i].id = id
                  THEN UpdatedRow(remoteExpenses[i], upd)
                  ELSE remoteExpenses[i]]
          /\ expenses' = MergeAt(expenses, FindIndex(expenses, id), upd)
          /\ returned' = "true"
          /\ alert' = ""
     ELSE /\ returned' = "false"
          /\ alert' = "Error updating expense"
          /\ UNCHANGED << expenses, remoteExpenses >>
  /\ UNCHANGED << localExpenses, currentUser, pending, clock, today, tz, engine,
                  activeFilters, result, Scalars >>

\* deleteExpense, logged in.  A delete whose id no row has removes nothing;
\* whether the backend reports that as an error depends on the id's type.
DeleteExpenseRemote(id, outcome) ==
  /\ isLoggedIn
  /\ id \in RowIds(remoteExpenses) => outcome = "ok"
  /\ IF outcome = "error"
     THEN /\ returned' = "false"
          /\ alert' = "Error deleting expense"
          /\ UNCHANGED << expenses, remoteExpenses >>
     ELSE /\ remoteExpenses' = RowsWithout(remoteExpenses, id)
          /\ expenses' = FilterOutId(expenses, id)
          /\ returned' = IF Len(expenses') < Len(expenses) THEN "true" ELSE "false"
          /\ alert' = ""
  /\ UNCHANGED << localExpenses, currentUser, pending, clock, today, tz, engine,
                  activeFilters, result, Scalars >>

\* The user's rows when the session starts.
RemoteTables ==
  { <<>>,
    << [id |-> RemoteId, name |-> "rent", category |-> "Housing",
        amount |-> 100, recurrence |-> "Monthly", date |-> 20261101] >> }

\* The forms of the edit dialog: one changes the category.
UpdateForms == { EditData, Data("rent", "Food", "Monthly", 100, 20261101) }

BackendInit ==
  /\ remoteExpenses \in RemoteTables
  /\ expenses = LoadedFrom(remoteExpenses)
  /\ localExpenses = <<>>
  /\ currentUser = "user"
  /\ pending = EmptyBag
  /\ clock = 1
  /\ today = Noon
  /\ tz = 0
  /\ engine = "binary"
  /\ monthlyBudget = 0
  /\ monthlyIncome = 0
  /\ localScalars = NoScalars
  /\ activeFilters =
       setPredefinedDateRange(InitialFilters, "current-year", today, tz)
  /\ returned = "none"
  /\ alert = ""
  /\ result = NoOp

BackendIds == {1, 2, RemoteId, RemoteId + 1}

BackendNext ==
  \/ \E data \in FormData : AddExpenseRemote(data)
  \/ \E id \in BackendIds, upd \in UpdateForms : UpdateExpenseRemote(id, upd)
  \/ \E id \in BackendIds, outcome \in BackendOutcomes :
       DeleteExpenseRemote(id, outcome)
  \/ Tick

BackendSpec == BackendInit /\ [][BackendNext]_vars

AsSet(exps) == { exps[i] : i \in 1..Len(exps) }

InMemory(id) == \E i \in 1..Len(expenses) : expenses[i].id = id

\* C29: logged in, with a backend that never fails, the in-memory collection
\* is at all times what loadFromSupabase would load from the backend; a
\* record in memory, one just added included, is updated and deleted
\* through the id it has in memory, and a category change reaches the
\* backend.
C29_MemoryMatchesBackend ==
  /\ [](AsSet(expenses) = AsSet(LoadedFrom(remoteExpenses)))
  /\ [][\A id \in BackendIds :
          InMemory(id) =>
            /\ \A upd \in UpdateForms :
                 UpdateExpenseRemote(id, upd) => returned' = "true"
            /\ \A outcome \in BackendOutcomes :
                 DeleteExpenseRemote(id, outcome) =>
                   (returned' = "true" /\ id \notin RowIds(remoteExpenses'))]_vars

---------------------------------------------------------------------------
(***************************************************************************)
(* SelectionSpec: deleteSelectedExpenses in a logged-in session.  The      *)
(* backend's answer to each delete is drawn when the deletes are started   *)
(* and kept, with the selection, in `result`.                              *)
(***************************************************************************)

\* parseInt of an id that is not a number.
NaN == 0 - 2

\* An id the backend gave (a uuid), as opposed to one from Date.now().
IsBackendId(id) == id >= RemoteId

\* parseInt(id) of the id string of a table row: the number for an id from
\* Date.now(); for a uuid NaN, or the number its leading digits spell, which
\* is no record's id either.
parseInt(id) == IF IsBackendId(id) THEN NaN ELSE id

\* The collection of a session: loaded records and records added in it.
SelectionLoaded ==
  { << WithId(Data("rent", "Housing", "Monthly", 100, 20261101), 1),
       WithId(Data("gift", "Food", "One-time", 600, 20261130), 2),
       WithId(Data("rent", "Food", "Yearly", 1200, 20260315), RemoteId) >>,
    << WithId(Data("rent", "Housing", "Monthly", 100, 20261101), RemoteId),
       WithId(Data("gift", "Food", "One-time", 600, 20261130), 1) >> }

SelectionInit ==
  /\ expenses \in SelectionLoaded
  /\ localExpenses = <<>>
  /\ currentUser = "user"
  /\ pending = EmptyBag
  /\ clock = 1
  /\ today = Noon
  /\ tz = 0
  /\ engine = "binary"
  /\ remoteExpenses = <<>>
  /\ monthlyBudget = 0
  /\ monthlyIncome = 0
  /\ localScalars = NoScalars
  /\ activeFilters =
       setPredefinedDateRange(InitialFilters, "current-year", today, tz)
  /\ returned = "none"
  /\ alert = ""
  /\ result = NoOp

\* The delete calls forEach starts, one per selected id, none awaited.
StartedDeletes(selected) ==
  LET calls == { Call("delete", parseInt(id), Hole, 0, Len(expenses)) :
                   id \in selected }
  IN  [c \in calls |-> Cardinality({ id \in selected : parseInt(id) = c.id })]

\* deleteSelectedExpenses with these rows selected; the backend will refuse
\* the deletes of the ids in `failing`.
DeleteSelectedExpenses(selected, failing) ==
  /\ isLoggedIn
  /\ pending = EmptyBag
  /\ selected # {}
  /\ Cardinality(selected) <= MaxRacing
  /\ pending' = StartedDeletes(selected)
  /\ Returns("deleteSelectedExpenses", selected,
             [before |-> expenses, failing |-> failing])
  /\ returned' = "pending"
  /\ alert' = ""
  /\ UNCHANGED << expenses, localExpenses, currentUser, clock, today, tz, engine,
                  remoteExpenses, activeFilters, Scalars >>

\* The backend's answer to a started delete: an id that is no uuid is
\* refused by the uuid column.
AnswerTo(call) ==
  IF call.id = NaN \/ call.id \in result.val.failing THEN "error" ELSE "ok"

SelectedDeleteReturn(call) == DeleteExpenseReturn(call, AnswerTo(call))

SelectionNext ==
  \/ \E selected \in SUBSET AsSet(IdsOf(expenses)) :
       \E failing \in SUBSET selected :
         DeleteSelectedExpenses(selected, failing)
  \/ \E call \in BagToSet(pending) : SelectedDeleteReturn(call)

SelectionSpec == SelectionInit /\ [][SelectionNext]_vars

AllCompleted == result.op = "deleteSelectedExpenses" /\ pending = EmptyBag

\* The selected ids whose backend delete succeeded.
Deleted ==
  { id \in result.arg : AnswerTo(Call("delete", parseInt(id), Hole, 0, 0)) = "ok" }

RECURSIVE Without(_, _)
Without(exps, ids) ==
  IF exps = <<>> THEN <<>>
  ELSE IF Head(exps).id \in ids THEN Without(Tail(exps), ids)
       ELSE << Head(exps) >> \o Without(Tail(exps), ids)

\* C30: deleteSelectedExpenses starts one deleteExpense per selected id and
\* awaits none; in whatever order the backend calls complete, once all have
\* completed the selected records whose delete succeeded are gone, those
\* whose delete failed are still there, and no unselected record is gone.
C30_SelectedDeleted ==
  AllCompleted => expenses = Without(result.val.before, Deleted)

\* Two rows selected, one delete accepted and one refused, both completed.
C30_Witness ==
  /\ AllCompleted
  /\ Cardinality(result.arg) = 2
  /\ Cardinality(Deleted) = 1
  /\ Len(expenses) = Len(result.val.before) - 1
  /\ result.val.failing # {}

=============================================================================
